---- MODULE Spec2Model ----
(***************************************************************************)
(* Session run coordination of the gateway: the follow-up queue and its    *)
(* drain loop (auto-reply/reply/queue.ts), the session store with its read *)
(* cache (config/sessions.ts) and the idempotent `agent` gateway method    *)
(* (gateway/server-methods/agent.ts).                                      *)
(*                                                                         *)
(* JavaScript runs one synchronous segment at a time: an action of this    *)
(* module is one such segment, from a call or a resumed await to the next  *)
(* await.  File-system operations issued through fs.promises run on the    *)
(* thread pool and are separate steps.                                     *)
(***************************************************************************)
EXTENDS Integers, Sequences, FiniteSets, TLC

VARIABLES
  FOLLOWUP_QUEUES,  \* Map<string, FollowupQueueState>: a function on the keys present
  drains,           \* the running drain loops (async closures of scheduleFollowupDrain)
  calls,            \* history: the FollowupRun values passed to runFollowup, in order
  accepted,         \* history: ids of the items enqueueFollowupRun pushed, in order
  evicted,          \* history: ids of the items removed by the cap
  nEnq,             \* history: number of enqueueFollowupRun calls made so far
  lastOp,           \* history: the most recent call made by the environment, or the
                    \* rejection of a runFollowup call
  switched,         \* history: keys whose drain went per-item and has items left
  enqueued,         \* history: the runs passed to enqueueFollowupRun, in order
  overflow,         \* history: by key, the items evicted under the summarize policy
                    \* since a summary was last passed to the executor, each with
                    \* the cap in force when it was evicted
  errors,           \* history: the keys whose drain failure the catch block logged
  routable,         \* the channels isRoutableChannel (route-reply.ts) accepts
  SESSION_STORE_CACHE, \* Map<string, SessionStoreCacheEntry>: a function on the paths cached
  ttlMs,            \* getSessionStoreTtl(): the cache TTL the environment configures
  disk,             \* the store's directory: whether it exists, the store file, the temp files
  fsClock,          \* the next modification time (and inode number) the file system hands out
  loader,           \* the loadSessionStore call the JavaScript thread is inside, if any
  savers,           \* the saveSessionStore calls in flight, by caller
  nSaves,           \* history: number of saveSessionStore calls made by the environment
  settled,          \* history: the store of the last save that completed undisturbed,
                    \* as passed to the call (saved) and as JSON serializes it (store),
                    \* and the save that ended last (id) and whether it threw
  lastLoad,         \* history: what the most recent loadSessionStore call read and returned
  dedupe,           \* context.dedupe: Map<string, DedupeEntry>
  requests,         \* the `agent` requests received, with where each handler is suspended
  responses,        \* history: the respond() calls made for each request, in order
  agentCommands,    \* history: the agentCommand invocations, in order, with their state
  registered,       \* addChatRun / registerAgentRunContext registrations
  chatSends,        \* the bridge chat.send requests received, with where each is suspended
  chatAbortControllers, \* Map<runId, {controller, sessionId, sessionKey}>
  chatRunBuffers,   \* Map<runId, string>
  chatDeltaSentAt,  \* Map<runId, number>
  chatRunSessions,  \* the chat-run registry: Map<sessionId, ChatRunEntry[]>
  abortedControllers, \* the AbortControllers whose abort() has been called
  chatEvents,       \* history: the "chat" payloads broadcast, in order
  lastAbort,        \* history: the most recent chat.abort request and its response
  sessionOps,       \* the operations on sessions in flight or ended, with where each is
                    \* suspended and, as history, what it loaded and decided
  wallClock         \* Date.now() of the session operations

queueVars ==
  <<FOLLOWUP_QUEUES, drains, calls, accepted, evicted, nEnq, lastOp, switched, routable,
    enqueued, overflow, errors>>

storeVars ==
  <<SESSION_STORE_CACHE, ttlMs, disk, fsClock, loader, savers, nSaves, settled, lastLoad>>

agentVars == <<dedupe, requests, responses, agentCommands, registered>>

\* The state of the bridge other than the chat.send requests.
bridgeRest ==
  <<chatAbortControllers, chatRunBuffers, chatDeltaSentAt, chatRunSessions,
    abortedControllers, chatEvents, lastAbort>>

bridgeVars == <<chatSends, bridgeRest>>

sessionVars == <<sessionOps, wallClock>>

(***************************************************************************)
(* Bounds of the model.                                                    *)
(***************************************************************************)
MaxEnqueues == 3
MaxCalls == 6
MaxSince == 2
MaxSaves == 2
MaxAborts == 2
MaxForeignWrites == 3
CacheTtlMs == 1

(***************************************************************************)
(* Program constants.                                                      *)
(***************************************************************************)
DEFAULT_QUEUE_DEBOUNCE_MS == 1000
DEFAULT_QUEUE_CAP == 20
DEFAULT_QUEUE_DROP == "summarize"

Min(a, b) == IF a < b THEN a ELSE b
Max(a, b) == IF a > b THEN a ELSE b

Has(r, f) == f \in DOMAIN r

\* isRoutableChannel is imported from route-reply.ts; the set of channels it
\* accepts is fixed when the process starts and is left open here.
isRoutableChannel(channel) == channel \in routable

(***************************************************************************)
(* Optional fields of a TypeScript object are fields a record may lack.    *)
(***************************************************************************)
RouteFields ==
  {"originatingChannel", "originatingTo", "originatingAccountId", "originatingThreadId"}

SameField(a, b, f) ==
  /\ Has(a, f) = Has(b, f)
  /\ Has(a, f) => a[f] = b[f]

hasSameRouting(item, run) == \A f \in RouteFields : SameField(item, run, f)

\* The route of a run as a record of the route fields it carries.
RouteOf(run) == [f \in (DOMAIN run) \cap RouteFields |-> run[f]]

\* buildQueueSummaryLine: the summaryLine when there is one, else the prompt.  The
\* texts of the model are single words of fewer than 160 characters, which trim(),
\* the collapsing of white space and elideText leave as they are.
buildQueueSummaryLine(run) ==
  IF Has(run, "summaryLine") THEN run.summaryLine ELSE run.prompt

(***************************************************************************)
(* getFollowupQueue: the existing state with the call's settings applied,  *)
(* or a new state.  since stands for Date.now() - lastEnqueuedAt, counted  *)
(* up to MaxSince (a new state has lastEnqueuedAt = 0, long ago).          *)
(***************************************************************************)
SettingsDebounce(settings, fallback) ==
  IF Has(settings, "debounceMs") THEN Max(0, settings.debounceMs) ELSE fallback

SettingsCap(settings, fallback) ==
  IF Has(settings, "cap") /\ settings.cap > 0 THEN settings.cap ELSE fallback

SettingsDrop(settings, fallback) ==
  IF Has(settings, "dropPolicy") THEN settings.dropPolicy ELSE fallback

getFollowupQueue(queues, key, settings) ==
  IF key \in DOMAIN queues
    THEN [queues[key] EXCEPT
            !.mode = settings.mode,
            !.debounceMs = SettingsDebounce(settings, @),
            !.cap = SettingsCap(settings, @),
            !.dropPolicy = SettingsDrop(settings, @)]
    ELSE [items |-> <<>>,
          draining |-> FALSE,
          since |-> MaxSince,
          mode |-> settings.mode,
          debounceMs |-> SettingsDebounce(settings, DEFAULT_QUEUE_DEBOUNCE_MS),
          cap |-> SettingsCap(settings, DEFAULT_QUEUE_CAP),
          dropPolicy |-> SettingsDrop(settings, DEFAULT_QUEUE_DROP),
          droppedCount |-> 0,
          summaryLines |-> <<>>,
          lastRun |-> "none"]

\* Map.set / Map.delete on a function whose domain is the keys present.
MapSet(m, k, v) == [x \in (DOMAIN m) \cup {k} |-> IF x = k THEN v ELSE m[x]]

MapClear(m, k) == <<>>

MapDelete(m, k) == [x \in (DOMAIN m) \ {k} |-> m[x]]

\* A message id is a string: a sequence of characters.  String.prototype.trim
\* removes the white space at both ends.
RECURSIVE trimStart(_)
trimStart(text) ==
  IF text # <<>> /\ Head(text) = " " THEN trimStart(Tail(text)) ELSE text

RECURSIVE trimEnd(_)
trimEnd(text) ==
  IF text # <<>> /\ text[Len(text)] = " "
    THEN trimEnd(SubSeq(text, 1, Len(text) - 1)) ELSE text

trim(text) == trimEnd(trimStart(text))

isRunAlreadyQueuedUntrimmed(run, queue, allowPromptFallback) ==
  IF Has(run, "messageId") /\ run.messageId # <<>>
    THEN \E i \in 1..Len(queue.items) :
           /\ Has(queue.items[i], "messageId")
           /\ queue.items[i].messageId = run.messageId
           /\ hasSameRouting(queue.items[i], run)
    ELSE /\ allowPromptFallback
         /\ \E i \in 1..Len(queue.items) :
              /\ queue.items[i].prompt = run.prompt
              /\ hasSameRouting(queue.items[i], run)

isRunAlreadyQueuedByPromptToo(run, queue, allowPromptFallback) ==
  \/ /\ Has(run, "messageId") /\ trim(run.messageId) # <<>>
     /\ \E i \in 1..Len(queue.items) :
          /\ Has(queue.items[i], "messageId")
          /\ trim(queue.items[i].messageId) = trim(run.messageId)
          /\ hasSameRouting(queue.items[i], run)
  \/ /\ allowPromptFallback
     /\ \E i \in 1..Len(queue.items) :
          /\ queue.items[i].prompt = run.prompt
          /\ hasSameRouting(queue.items[i], run)

\* const messageId = run.messageId?.trim(); if (messageId) { ... }: an id that is
\* missing or empty once trimmed takes the prompt fallback or dedupes nothing.
isRunAlreadyQueued(run, queue, allowPromptFallback) ==
  IF Has(run, "messageId") /\ trim(run.messageId) # <<>>
    THEN \E i \in 1..Len(queue.items) :
           /\ Has(queue.items[i], "messageId")
           /\ trim(queue.items[i].messageId) = trim(run.messageId)
           /\ hasSameRouting(queue.items[i], run)
    ELSE /\ allowPromptFallback
         /\ \E i \in 1..Len(queue.items) :
              /\ queue.items[i].prompt = run.prompt
              /\ hasSameRouting(queue.items[i], run)

IsDuplicate(run, queue, dedupeMode) ==
  \/ dedupeMode = "message-id" /\ isRunAlreadyQueued(run, queue, FALSE)
  \/ dedupeMode = "prompt" /\ isRunAlreadyQueued(run, queue, TRUE)

Drop(s, n) == SubSeq(s, n + 1, Len(s))
Take(s, n) == SubSeq(s, 1, n)
IdsOf(items) == [i \in 1..Len(items) |-> items[i].id]
Range(s) == {s[i] : i \in 1..Len(s)}

(***************************************************************************)
(* enqueueFollowupRun as a function of the queue found by getFollowupQueue:*)
(* the queue it leaves, its return value and the items the cap removed.    *)
(***************************************************************************)
RejectsNever(queue) == FALSE

\* if (queue.dropPolicy === "new") return false;
RejectsNew(queue) == queue.dropPolicy = "new"

DropOne(queue) == 1

\* const dropCount = queue.items.length - cap + 1;
DropCount(queue) == Len(queue.items) - queue.cap + 1

EnqueueResult(queue, run, dedupeMode) ==
  IF IsDuplicate(run, queue, dedupeMode)
    THEN [queue |-> queue, result |-> FALSE, dropped |-> <<>>]
    ELSE
      LET stamped == [queue EXCEPT !.since = 0, !.lastRun = run.run]
          cap == stamped.cap
      IN  IF cap > 0 /\ Len(stamped.items) >= cap
            THEN
              IF RejectsNew(stamped)
                THEN [queue |-> stamped, result |-> FALSE, dropped |-> <<>>]
                ELSE
                  LET dropCount == DropCount(stamped)
                      dropped == Take(stamped.items, dropCount)
                      rest == Drop(stamped.items, dropCount)
                      lines == stamped.summaryLines \o
                                 [i \in 1..Len(dropped) |-> buildQueueSummaryLine(dropped[i])]
                      kept == IF Len(lines) > cap
                                THEN Drop(lines, Len(lines) - cap) ELSE lines
                      counted ==
                        IF stamped.dropPolicy = "summarize"
                          THEN [stamped EXCEPT
                                  !.droppedCount = @ + Len(dropped),
                                  !.summaryLines = kept]
                          ELSE stamped
                  IN  [queue |-> [counted EXCEPT !.items = Append(rest, run)],
                       result |-> TRUE, dropped |-> dropped]
            ELSE [queue |-> [stamped EXCEPT !.items = Append(@, run)],
                  result |-> TRUE, dropped |-> <<>>]

(***************************************************************************)
(* The drain loop.  A loop is a record: the key of its queue, where it is  *)
(* suspended (pc), the debounceMs its waitForQueueDebounce call read, its  *)
(* forceIndividualCollect flag, and epoch, which tells a loop from the one *)
(* its finally block starts in its place.                                  *)
(*   "ready"   : waitForQueueDebounce returned at once; the loop resumes   *)
(*               from its await in a later microtask                       *)
(*   "wait"    : waitForQueueDebounce sleeps on its timer                  *)
(*   "running" : the loop awaits the runFollowup call it issued            *)
(***************************************************************************)
NoSummary == [count |-> 0, lines |-> <<>>]

\* buildSummaryPrompt: the summary text (its dropped count and its lines).
SummaryOf(queue) ==
  IF queue.dropPolicy # "summarize" \/ queue.droppedCount <= 0
    THEN NoSummary
    ELSE [count |-> queue.droppedCount, lines |-> queue.summaryLines]

AfterSummaryKeeping(queue) == queue

\* buildSummaryPrompt: the queue it leaves.
AfterSummary(queue) ==
  IF queue.dropPolicy # "summarize" \/ queue.droppedCount <= 0
    THEN queue
    ELSE [queue EXCEPT !.droppedCount = 0, !.summaryLines = <<>>]

IsUnkeyed(item) == \A f \in RouteFields : ~Has(item, f)

IsUnroutable(item) ==
  \/ ~Has(item, "originatingChannel")
  \/ ~isRoutableChannel(item.originatingChannel)
  \/ ~Has(item, "originatingTo")

hasCrossChannelItems(items) ==
  LET idx == 1..Len(items)
      keyed == {i \in idx : ~IsUnkeyed(items[i])}
      \* the loop returns true at the first keyed item it cannot route
      keys == {RouteOf(items[i]) : i \in keyed}
  IN  IF \E i \in keyed : IsUnroutable(items[i]) THEN TRUE
      ELSE IF keys = {} THEN FALSE
      ELSE IF keyed # idx THEN TRUE
      ELSE Cardinality(keys) > 1

\* items.find((i) => i.<field>)?.<field> for each route field.
FirstWith(items, f) ==
  LET having == {i \in 1..Len(items) : Has(items[i], f)}
      first == CHOOSE i \in having : \A j \in having : i <= j
  IN  items[first][f]

CollectRoute(items) ==
  LET having == {f \in RouteFields : \E i \in 1..Len(items) : Has(items[i], f)}
  IN  [f \in having |-> FirstWith(items, f)]

ItemCallWithoutRoute(next) ==
  [kind |-> "item", items |-> <<next>>, summary |-> NoSummary,
   run |-> next.run, route |-> <<>>]

\* The values passed to runFollowup: the items a call carries, its summary text,
\* its run parameters and its originating route.
ItemCall(next) ==
  [kind |-> "item", items |-> <<next>>, summary |-> NoSummary,
   run |-> next.run, route |-> RouteOf(next)]

CollectCallWithoutSummary(items, summary, run) ==
  [kind |-> "collect", items |-> items, summary |-> NoSummary,
   run |-> run, route |-> RouteOf(items[1])]

CollectCall(items, summary, run) ==
  [kind |-> "collect", items |-> items, summary |-> summary,
   run |-> run, route |-> CollectRoute(items)]

SummaryCall(summary, run) ==
  [kind |-> "summary", items |-> <<>>, summary |-> summary,
   run |-> run, route |-> <<>>]

LoopCond(queue) == Len(queue.items) > 0 \/ queue.droppedCount > 0

\* The synchronous part of waitForQueueDebounce(queue).
WaitEntry(queue) ==
  LET debounceMs == Max(0, queue.debounceMs)
  IN  IF debounceMs <= 0 \/ queue.since >= debounceMs
        THEN [pc |-> "ready", debounceMs |-> debounceMs]
        ELSE [pc |-> "wait", debounceMs |-> debounceMs]

NewLoop(key, queue, epoch) ==
  [key |-> key, pc |-> WaitEntry(queue).pc, debounceMs |-> WaitEntry(queue).debounceMs,
   forceIndividualCollect |-> FALSE, epoch |-> epoch]

ShiftLast(queue, force) ==
  IF Len(queue.items) = 0
    THEN [queue |-> queue, force |-> force, call |-> <<>>]
    ELSE [queue |-> [queue EXCEPT !.items = Take(@, Len(@) - 1)], force |-> force,
          call |-> <<[kind |-> "item", items |-> <<queue.items[Len(queue.items)]>>,
                      summary |-> NoSummary, run |-> queue.items[Len(queue.items)].run,
                      route |-> RouteOf(queue.items[Len(queue.items)])]>>]

\* One pass of the loop body after the debounce wait: the queue it leaves, the
\* flag, and the call it issues (none when it breaks out of the loop).
ShiftCall(queue, force) ==
  IF Len(queue.items) = 0
    THEN [queue |-> queue, force |-> force, call |-> <<>>]
    ELSE [queue |-> [queue EXCEPT !.items = Tail(@)], force |-> force,
          call |-> <<ItemCall(Head(queue.items))>>]

CollectBody(queue, force) ==
  IF force THEN ShiftCall(queue, force)
  ELSE IF hasCrossChannelItems(queue.items) THEN ShiftCall(queue, TRUE)
  ELSE
    LET items == queue.items
        run == IF Len(items) > 0 THEN items[Len(items)].run ELSE queue.lastRun
        emptied == [queue EXCEPT !.items = <<>>]
    IN  IF run = "none"
          THEN [queue |-> AfterSummary(emptied), force |-> force, call |-> <<>>]
          ELSE [queue |-> AfterSummary(emptied), force |-> force,
                call |-> <<CollectCall(items, SummaryOf(queue), run)>>]

SingleBody(queue, force) ==
  IF SummaryOf(queue) # NoSummary
    THEN IF queue.lastRun = "none"
           THEN [queue |-> AfterSummary(queue), force |-> force, call |-> <<>>]
           ELSE [queue |-> AfterSummary(queue), force |-> force,
                 call |-> <<SummaryCall(SummaryOf(queue), queue.lastRun)>>]
    ELSE ShiftCall(queue, force)

LoopBody(queue, force) ==
  IF queue.mode = "collect" THEN CollectBody(queue, force) ELSE SingleBody(queue, force)

RemoveAt(s, i) == SubSeq(s, 1, i - 1) \o SubSeq(s, i + 1, Len(s))

DrainGuardIgnoringFlag(queues, key) == key \in DOMAIN queues

\* if (!queue || queue.draining) return;
DrainGuard(queues, key) == key \in DOMAIN queues /\ ~queues[key].draining

\* scheduleFollowupDrain up to the first await of the loop it starts.
ScheduleState(queues, ds, key, epoch) ==
  IF ~DrainGuard(queues, key)
    THEN [queues |-> queues, drains |-> ds]
    ELSE
      LET queue == [queues[key] EXCEPT !.draining = TRUE]
      IN  IF LoopCond(queue)
            THEN [queues |-> [queues EXCEPT ![key] = queue],
                  drains |-> Append(ds, NewLoop(key, queue, epoch))]
            ELSE [queues |-> MapDelete(queues, key), drains |-> ds]

FinallyWithoutDrain(queues, ds, i) ==
  LET key == ds[i].key
      queue == [queues[key] EXCEPT !.draining = FALSE]
  IN  IF Len(queue.items) = 0 /\ queue.droppedCount = 0
        THEN [queues |-> MapDelete(queues, key), drains |-> RemoveAt(ds, i)]
        ELSE [queues |-> [queues EXCEPT ![key] = queue], drains |-> RemoveAt(ds, i)]

\* The finally block of loop i: clear the flag; delete the state or drain again.
FinallyState(queues, ds, i) ==
  LET key == ds[i].key
      queue == [queues[key] EXCEPT !.draining = FALSE]
  IN  IF Len(queue.items) = 0 /\ queue.droppedCount = 0
        THEN [queues |-> MapDelete(queues, key), drains |-> RemoveAt(ds, i)]
        ELSE ScheduleState([queues EXCEPT ![key] = queue], RemoveAt(ds, i), key,
                           1 - ds[i].epoch)

\* `continue`: the loop condition and the next waitForQueueDebounce call.
ContinueState(queues, ds, i) ==
  LET queue == queues[ds[i].key]
  IN  IF LoopCond(queue)
        THEN [queues |-> queues,
              drains |-> [ds EXCEPT ![i].pc = WaitEntry(queue).pc,
                                    ![i].debounceMs = WaitEntry(queue).debounceMs]]
        ELSE FinallyState(queues, ds, i)

RecordCall(history, call) ==
  IF Len(history) < MaxCalls THEN history \o call ELSE history

(***************************************************************************)
(* The operations on the follow-up queues.                                 *)
(***************************************************************************)
QueueInit(channels) ==
  /\ routable = channels
  /\ FOLLOWUP_QUEUES = <<>>
  /\ drains = <<>>
  /\ calls = <<>>
  /\ accepted = <<>>
  /\ evicted = {}
  /\ nEnq = 0
  /\ lastOp = [op |-> "none", key |-> "", result |-> FALSE, dedupe |-> ""]
  /\ switched = {}
  /\ enqueued = <<>>
  /\ overflow = <<>>
  /\ errors = {}

OverflowOf(log, key) == IF key \in DOMAIN log THEN log[key] ELSE <<>>

\* enqueueFollowupRun(key, run, settings, dedupeMode); the item is given the
\* number of the call as its identity, and the calls of a behaviour are counted
\* up to limit.
EnqueueWithin(limit, key, trigger, settings, dedupeMode) ==
  /\ nEnq < limit
  /\ LET run == [x \in (DOMAIN trigger) \cup {"id"} |->
                   IF x = "id" THEN nEnq + 1 ELSE trigger[x]]
         out == EnqueueResult(getFollowupQueue(FOLLOWUP_QUEUES, key, settings),
                              run, dedupeMode)
     IN  /\ FOLLOWUP_QUEUES' = MapSet(FOLLOWUP_QUEUES, key, out.queue)
         /\ accepted' = IF out.result THEN Append(accepted, run.id) ELSE accepted
         /\ evicted' = evicted \cup Range(IdsOf(out.dropped))
         /\ lastOp' = [op |-> "enqueue", key |-> key, result |-> out.result,
                     dedupe |-> dedupeMode]
         /\ enqueued' = Append(enqueued, run)
         /\ overflow' =
              IF out.dropped # <<>> /\ out.queue.dropPolicy = "summarize"
                THEN MapSet(overflow, key,
                            OverflowOf(overflow, key) \o
                              [i \in 1..Len(out.dropped) |->
                                 [item |-> out.dropped[i], cap |-> out.queue.cap]])
                ELSE overflow
  /\ nEnq' = nEnq + 1
  /\ UNCHANGED <<drains, calls, switched, routable, errors, storeVars, agentVars, bridgeVars, sessionVars>>

\* The calls of a behaviour are counted up to MaxEnqueues.
Enqueue(key, trigger, settings, dedupeMode) ==
  EnqueueWithin(MaxEnqueues, key, trigger, settings, dedupeMode)

\* scheduleFollowupDrain(key, runFollowup), called by the environment.
ScheduleDrain(key) ==
  /\ LET out == ScheduleState(FOLLOWUP_QUEUES, drains, key, 0)
     IN  /\ FOLLOWUP_QUEUES' = out.queues
         /\ drains' = out.drains
  /\ lastOp' = [op |-> "schedule", key |-> key,
                result |-> DrainGuard(FOLLOWUP_QUEUES, key), dedupe |-> ""]
  /\ UNCHANGED <<calls, accepted, evicted, nEnq, switched, routable, enqueued, overflow,
                 errors, storeVars, agentVars, bridgeVars, sessionVars>>

\* Loop i resumes after waitForQueueDebounce and runs the loop body up to its
\* next await: it issues a call, or breaks out into the finally block.
ResumeBody(i) ==
  LET loop == drains[i]
      out == LoopBody(FOLLOWUP_QUEUES[loop.key], loop.forceIndividualCollect)
      queues == [FOLLOWUP_QUEUES EXCEPT ![loop.key] = out.queue]
  IN  /\ calls' = RecordCall(calls, out.call)
      /\ IF out.call # <<>>
           THEN /\ FOLLOWUP_QUEUES' = queues
                /\ drains' = [drains EXCEPT ![i].pc = "running",
                                            ![i].forceIndividualCollect = out.force]
           ELSE /\ FOLLOWUP_QUEUES' = FinallyState(queues, drains, i).queues
                /\ drains' = FinallyState(queues, drains, i).drains
      /\ switched' = IF Len(out.queue.items) = 0 THEN switched \ {loop.key}
                      ELSE IF out.force THEN switched \cup {loop.key}
                      ELSE switched
      /\ overflow' = IF out.call # <<>> /\ out.call[1].summary # NoSummary
                      THEN MapDelete(overflow, loop.key) ELSE overflow
      /\ UNCHANGED <<accepted, evicted, nEnq, lastOp, routable, enqueued, errors, storeVars,
                     agentVars, bridgeVars, sessionVars>>

\* The await of a waitForQueueDebounce call that returned without sleeping.
DebounceResolved(i) ==
  /\ i \in 1..Len(drains)
  /\ drains[i].pc = "ready"
  /\ ResumeBody(i)

\* The timer of waitForQueueDebounce fires with the window elapsed (a timer that
\* fires earlier finds since < debounceMs and sleeps again).
DebounceElapsed(i) ==
  /\ i \in 1..Len(drains)
  /\ drains[i].pc = "wait"
  /\ FOLLOWUP_QUEUES[drains[i].key].since >= drains[i].debounceMs
  /\ ResumeBody(i)

\* The runFollowup call of loop i resolves: `continue`.
RunReturn(i) ==
  /\ i \in 1..Len(drains)
  /\ drains[i].pc = "running"
  /\ FOLLOWUP_QUEUES' = ContinueState(FOLLOWUP_QUEUES, drains, i).queues
  /\ drains' = ContinueState(FOLLOWUP_QUEUES, drains, i).drains
  /\ UNCHANGED <<calls, accepted, evicted, nEnq, lastOp, switched, routable, enqueued,
                 overflow, errors, storeVars, agentVars, bridgeVars, sessionVars>>

CatchSilently(log, key) == log

\* defaultRuntime.error?.(`followup queue drain failed for ${key}: ...`)
CatchLog(log, key) == log \cup {key}

\* The runFollowup call of loop i rejects: catch, then finally.
RunThrow(i) ==
  /\ i \in 1..Len(drains)
  /\ drains[i].pc = "running"
  /\ errors' = CatchLog(errors, drains[i].key)
  /\ FOLLOWUP_QUEUES' = FinallyState(FOLLOWUP_QUEUES, drains, i).queues
  /\ drains' = FinallyState(FOLLOWUP_QUEUES, drains, i).drains
  /\ lastOp' = [op |-> "throw", key |-> drains[i].key, result |-> FALSE, dedupe |-> ""]
  /\ UNCHANGED <<calls, accepted, evicted, nEnq, switched, routable, enqueued, overflow,
                 storeVars, agentVars, bridgeVars, sessionVars>>

\* A millisecond passes: every lastEnqueuedAt and every loadedAt is a millisecond
\* further back.
Tick ==
  /\ \/ \E k \in DOMAIN FOLLOWUP_QUEUES : FOLLOWUP_QUEUES[k].since < MaxSince
     \/ \E q \in DOMAIN SESSION_STORE_CACHE : SESSION_STORE_CACHE[q].age <= ttlMs
  /\ FOLLOWUP_QUEUES' =
       [k \in DOMAIN FOLLOWUP_QUEUES |->
          [FOLLOWUP_QUEUES[k] EXCEPT !.since = Min(@ + 1, MaxSince)]]
  /\ SESSION_STORE_CACHE' =
       [q \in DOMAIN SESSION_STORE_CACHE |->
          [SESSION_STORE_CACHE[q] EXCEPT !.age = Min(@ + 1, ttlMs + 1)]]
  /\ UNCHANGED <<drains, calls, accepted, evicted, nEnq, lastOp, switched, routable, enqueued,
                 overflow, errors, ttlMs, disk, fsClock, loader, savers, nSaves, settled,
                 lastLoad, agentVars, bridgeVars, sessionVars>>

(***************************************************************************)
(* The session store (config/sessions.ts).  One store path is modelled.    *)
(* A SessionEntry is a record; a field set to undefined holds Undefined.   *)
(***************************************************************************)
StorePath == "sessions.json"

Undefined == "undefined"

\* The string-valued optional fields of a SessionEntry the model carries.
OptionalFields == {"lastTo", "label", "model", "lastProvider"}

\* JSON.stringify leaves out the properties whose value is undefined.
Defined(entry) ==
  [f \in {g \in DOMAIN entry : g \notin OptionalFields \/ entry[g] # Undefined} |-> entry[f]]

JsonStringifyRequired(store) ==
  [complete |-> TRUE,
   value |-> [k \in DOMAIN store |->
                [f \in DOMAIN store[k] \ OptionalFields |-> store[k][f]]]]

\* The text of a file: the complete serialization of a store, or a text cut short
\* (the empty text a truncating open leaves included).
JsonStringify(store) ==
  [complete |-> TRUE, value |-> [k \in DOMAIN store |-> Defined(store[k])]]

Truncated == [complete |-> FALSE]

\* A text that parses to a value that is not an object, such as a number.
NotAnObject == [complete |-> TRUE, value |-> [scalar |-> 42]]

\* The content of a file that readFileSync cannot read: the read throws.
Unreadable == [complete |-> FALSE, unreadable |-> TRUE]

\* JSON5.parse throws on a text cut short.
Json5Parse(raw) ==
  IF raw.complete THEN [ok |-> TRUE, value |-> raw.value] ELSE [ok |-> FALSE]

\* parsed && typeof parsed === "object" ? parsed : {}, lines 416-418
ParsedAsIs(parsed) == parsed

ParsedStore(parsed) == IF "scalar" \in DOMAIN parsed THEN <<>> ELSE parsed

\* What a read that threw found: no file, a file that cannot be read, or a text
\* that does not parse.
ReadFailure(file) ==
  IF ~file.exists THEN "missing"
  ELSE IF "unreadable" \in DOMAIN file.raw THEN "unreadable"
  ELSE "partial"

NoFile == [exists |-> FALSE]

\* A file created at time t: its inode number is t as well.
File(raw, t) == [exists |-> TRUE, raw |-> raw, mtimeMs |-> t, ino |-> t]

\* getFileMtimeMs returns undefined when the file cannot be stat'ed.
NoMtime == 0

getFileMtimeMs(d) == IF d.file.exists THEN d.file.mtimeMs ELSE NoMtime

isCacheEnabled(ttl) == ttl > 0

isSessionStoreCacheEnabled == isCacheEnabled(ttlMs)

isSessionStoreCacheNeverStale(entry) == TRUE

\* now - entry.loadedAt <= ttl, with age standing for now - loadedAt.
isSessionStoreCacheValid(entry) == entry.age <= ttlMs

invalidateSessionStoreCache(cache) == MapDelete(cache, StorePath)

\* loadSessionStore, lines 398-408: the cached store is returned.
CacheHit(cache, d) ==
  /\ isSessionStoreCacheEnabled
  /\ StorePath \in DOMAIN cache
  /\ isSessionStoreCacheValid(cache[StorePath])
  /\ getFileMtimeMs(d) = cache[StorePath].mtimeMs

\* loadSessionStore, lines 398-408: the cache a miss leaves.
CacheAfterMiss(cache) ==
  IF /\ isSessionStoreCacheEnabled
     /\ StorePath \in DOMAIN cache
     /\ isSessionStoreCacheValid(cache[StorePath])
    THEN invalidateSessionStoreCache(cache)
    ELSE cache

\* loadSessionStore, lines 425-432.
CacheAfterLoad(cache, store, mtimeMs) ==
  IF isSessionStoreCacheEnabled
    THEN MapSet(cache, StorePath, [store |-> store, age |-> 0, mtimeMs |-> mtimeMs])
    ELSE cache

Idle == [pc |-> "idle"]

\* What a load read: "cache", "missing", "unreadable", "complete" or "partial".
Loaded(store, read) == [valid |-> TRUE, store |-> store, read |-> read]

(***************************************************************************)
(* saveSessionStore.  A saver is a call in flight: the file-system         *)
(* operation it awaits (pc), whether the thread pool has run it (done),    *)
(* the error it raised (err), the store being saved, and the inode the     *)
(* direct write opened (fd).  undisturbed is history: no other save and no *)
(* removal of the directory has overlapped the call.  failed: an operation *)
(* of the call has failed with an error other than ENOENT.                 *)
(*   mkdir, writeTmp, rename : lines 444, 448, 449                         *)
(*   mkdir2, open, write     : lines 460, 461 (writeFile opens the file    *)
(*                             truncating it, then writes the text)        *)
(*   rm                      : line 475                                    *)
(***************************************************************************)
NewSaver(store, alone) ==
  [pc |-> "mkdir", done |-> FALSE, err |-> "", store |-> store, fd |-> NoMtime,
   undisturbed |-> alone, failed |-> FALSE]

Disturbed(savs) == [id \in DOMAIN savs |-> [savs[id] EXCEPT !.undisturbed = FALSE]]

\* The synchronous part of saveSessionStore(storePath, store) on the savers.
SaveStarted(savs, id, store) ==
  MapSet(Disturbed(savs), id, NewSaver(store, DOMAIN savs = {}))

\* The thread pool runs the operation saver id awaits.
FsEffect(d, clock, id, s) ==
  LET json == JsonStringify(s.store)
      enoent == [disk |-> d, clock |-> clock, err |-> "ENOENT", fd |-> s.fd]
  IN  CASE s.pc \in {"mkdir", "mkdir2"} ->
             [disk |-> [d EXCEPT !.dir = TRUE], clock |-> clock, err |-> "", fd |-> s.fd]
        [] s.pc = "writeTmp" ->
             IF d.dir
               THEN [disk |-> [d EXCEPT !.tmp[id] = File(json, clock)],
                     clock |-> clock + 1, err |-> "", fd |-> s.fd]
               ELSE enoent
        [] s.pc = "rename" ->
             IF d.tmp[id].exists
               THEN [disk |-> [d EXCEPT !.file = d.tmp[id], !.tmp[id] = NoFile],
                     clock |-> clock, err |-> "", fd |-> s.fd]
               ELSE enoent
        [] s.pc = "open" ->
             IF ~d.dir THEN enoent
             ELSE IF d.file.exists
               THEN [disk |-> [d EXCEPT !.file.raw = Truncated, !.file.mtimeMs = clock],
                     clock |-> clock + 1, err |-> "", fd |-> d.file.ino]
               ELSE [disk |-> [d EXCEPT !.file = File(Truncated, clock)],
                     clock |-> clock + 1, err |-> "", fd |-> clock]
        [] s.pc = "write" ->
             IF d.file.exists /\ d.file.ino = s.fd
               THEN [disk |-> [d EXCEPT !.file.raw = json, !.file.mtimeMs = clock],
                     clock |-> clock + 1, err |-> "", fd |-> s.fd]
               ELSE [disk |-> d, clock |-> clock, err |-> "", fd |-> s.fd]
        [] s.pc = "rm" ->
             [disk |-> [d EXCEPT !.tmp[id] = NoFile], clock |-> clock, err |-> "",
              fd |-> s.fd]

\* An error of the file system other than ENOENT.
OtherError == "EIO"

AfterFinallySwallowing(s) == "return"

\* Lines 472-476: after the rm of the finally block the call rethrows the error
\* it caught, or returns.
AfterFinally(s) == IF s.failed THEN "throw" ELSE "return"

\* The operation saveSessionStore issues when the one it awaited has settled.
\* The mkdir of line 444 is outside the try block: its error leaves the call
\* at once.  Any other error than ENOENT is rethrown (lines 469, 472) through
\* the finally block.
NextOp(s) ==
  IF s.err = OtherError
    THEN IF s.pc = "mkdir" THEN "throw" ELSE "rm"
    ELSE CASE s.pc = "mkdir" -> "writeTmp"
           [] s.pc = "writeTmp" -> IF s.err = "ENOENT" THEN "mkdir2" ELSE "rename"
           [] s.pc = "rename" -> IF s.err = "ENOENT" THEN "mkdir2" ELSE "rm"
           [] s.pc = "mkdir2" -> "open"
           [] s.pc = "open" -> IF s.err = "ENOENT" THEN "rm" ELSE "write"
           [] s.pc = "write" -> "rm"
           [] s.pc = "rm" -> AfterFinally(s)

(***************************************************************************)
(* The `agent` gateway method (gateway/server-methods/agent.ts).           *)
(***************************************************************************)
RequestIds == {"r1", "r2"}
ChatIds == {"c1", "c2"}
EnvSavers == {"s1", "s2"}
OpIds == {"o1", "o2", "o3"}
SaverIds == EnvSavers \cup RequestIds \cup ChatIds \cup OpIds

DedupeKey(idem) == <<"agent", idem>>

Respond(resps, r, res) ==
  MapSet(resps, r, (IF r \in DOMAIN resps THEN resps[r] ELSE <<>>) \o <<res>>)

InvalidRequest ==
  [ok |-> FALSE, status |-> "INVALID_REQUEST", runId |-> "", cached |-> FALSE]

\* entry?.<field>
Inherit(store, key, f) ==
  IF key \in DOMAIN store /\ Has(store[key], f) THEN store[key][f] ELSE Undefined

\* nextEntry, lines 83-101; randomUUID() yields an id unique to the request.
NextEntry(store, key, r, p, now) ==
  [sessionId |-> IF key \in DOMAIN store THEN store[key].sessionId ELSE r,
   updatedAt |-> now,
   lastTo |-> Inherit(store, key, "lastTo"),
   label |-> IF Has(p, "label") THEN p.label ELSE Inherit(store, key, "label")]

\* requestedSessionKey === mainSessionKey || requestedSessionKey === rawMainKey,
\* under a configuration that names no agent and no main key.
IsMainKey(key) == key \in {"agent:main:main", "main"}

Registrations(p) ==
  IF ~Has(p, "sessionKey") THEN {}
  ELSE {[kind |-> "agentRunContext", runId |-> p.idempotencyKey,
         sessionKey |-> p.sessionKey]}
       \cup (IF IsMainKey(p.sessionKey)
               THEN {[kind |-> "chatRun", runId |-> p.idempotencyKey,
                      sessionKey |-> p.sessionKey]}
               ELSE {})

\* Lines 127-261: register the run, store the in-flight ack, respond, and invoke
\* agentCommand.
AgentAccept(reqs, r) ==
  LET p == reqs[r].params
      ack == [ok |-> TRUE, status |-> "accepted", runId |-> p.idempotencyKey,
              cached |-> FALSE]
  IN  /\ requests' = [reqs EXCEPT ![r].pc = "running"]
      /\ registered' = registered \cup Registrations(p)
      /\ dedupe' = MapSet(dedupe, DedupeKey(p.idempotencyKey), ack)
      /\ responses' = Respond(responses, r, ack)
      /\ agentCommands' =
           Append(agentCommands,
                  [runId |-> p.idempotencyKey, request |-> r, state |-> "running"])

\* The request is let through whatever the send policy of its session.
NeverDenied(p) == FALSE

\* sendPolicy === "deny", line 111
IsDenied(p) == p.sendPolicy = "deny"

\* Lines 81-126, after loadSessionEntry returned store for request r.
AgentAfterLoad(reqs, r, store, cache, read) ==
  LET p == reqs[r].params
      nextEntry == NextEntry(store, p.sessionKey, r, p, fsClock)
  IN  IF IsDenied(p)
        THEN /\ requests' = [reqs EXCEPT ![r].pc = "done"]
             /\ responses' = Respond(responses, r, InvalidRequest)
             /\ SESSION_STORE_CACHE' = cache
             /\ lastLoad' = Loaded(store, read)
             /\ UNCHANGED <<savers, settled, dedupe, agentCommands, registered>>
        ELSE /\ requests' = [reqs EXCEPT ![r].pc = "saving"]
             /\ SESSION_STORE_CACHE' = invalidateSessionStoreCache(cache)
             /\ savers' = SaveStarted(savers, r, MapSet(store, p.sessionKey, nextEntry))
             /\ settled' = [settled EXCEPT !.known = FALSE]
             /\ lastLoad' = [Loaded(store, read) EXCEPT !.valid = FALSE]
             /\ UNCHANGED <<dedupe, responses, agentCommands, registered>>

(***************************************************************************)
(* The bridge methods chat.send and chat.abort (gateway/server-bridge.ts). *)
(* A chat.send request c creates one AbortController, named c.  The        *)
(* chat-run registry (addChatRun, removeChatRun) holds for each session id *)
(* the list of its entries.                                                *)
(***************************************************************************)
ChatDedupeKey(clientRunId) == <<"chat", clientRunId>>

\* ctx.addChatRun(sessionId, entry)
addChatRun(registry, sessionId, entry) ==
  MapSet(registry, sessionId,
         (IF sessionId \in DOMAIN registry THEN registry[sessionId] ELSE <<>>) \o <<entry>>)

\* ctx.removeChatRun(sessionId, clientRunId, sessionKey): the first entry of the
\* run leaves the list of the session id (the call returns one ChatRunEntry or
\* undefined), and an empty list leaves the registry.
removeChatRun(registry, sessionId, clientRunId, sessionKey) ==
  LET Matches(entry) == entry.clientRunId = clientRunId /\ entry.sessionKey = sessionKey
  IN  IF sessionId \notin DOMAIN registry
           \/ ~\E i \in 1..Len(registry[sessionId]) : Matches(registry[sessionId][i])
        THEN registry
        ELSE
          LET queue == registry[sessionId]
              idx == CHOOSE i \in 1..Len(queue) :
                       /\ Matches(queue[i])
                       /\ \A j \in 1..(i - 1) : ~Matches(queue[j])
              rest == SubSeq(queue, 1, idx - 1) \o SubSeq(queue, idx + 1, Len(queue))
          IN  IF rest = <<>> THEN MapDelete(registry, sessionId)
              ELSE [registry EXCEPT ![sessionId] = rest]

\* sessionEntry of chat.send, lines 809-822.
ChatEntry(store, key, c, now) ==
  [sessionId |-> IF key \in DOMAIN store THEN store[key].sessionId ELSE c,
   updatedAt |-> now,
   lastTo |-> Inherit(store, key, "lastTo")]

\* chat.send, lines 823-856, after loadSessionEntry returned store for request c:
\* the run context is registered; a cached outcome is returned; otherwise the
\* abort controller and the chat run are registered and the store is saved.
ChatAfterLoad(sends, c, store, cache, read) ==
  LET p == sends[c].params
      clientRunId == p.idempotencyKey
      sessionEntry == ChatEntry(store, p.sessionKey, c, fsClock)
  IN  /\ registered' =
           registered \cup {[kind |-> "agentRunContext", runId |-> clientRunId,
                             sessionKey |-> p.sessionKey]}
      /\ IF ChatDedupeKey(clientRunId) \in DOMAIN dedupe
           THEN /\ chatSends' = [sends EXCEPT ![c].pc = "done", ![c].result = "cached"]
                /\ SESSION_STORE_CACHE' = cache
                /\ lastLoad' = Loaded(store, read)
                /\ UNCHANGED <<savers, settled, dedupe, agentCommands, bridgeRest>>
           ELSE /\ chatSends' = [sends EXCEPT ![c].pc = "saving"]
                /\ chatAbortControllers' =
                     MapSet(chatAbortControllers, clientRunId,
                            [controller |-> c, sessionId |-> sessionEntry.sessionId,
                             sessionKey |-> p.sessionKey])
                /\ chatRunSessions' =
                     addChatRun(chatRunSessions, clientRunId,
                                [sessionKey |-> p.sessionKey, clientRunId |-> clientRunId])
                /\ SESSION_STORE_CACHE' = invalidateSessionStoreCache(cache)
                /\ savers' = SaveStarted(savers, c, MapSet(store, p.sessionKey, sessionEntry))
                /\ settled' = [settled EXCEPT !.known = FALSE]
                /\ lastLoad' = [Loaded(store, read) EXCEPT !.valid = FALSE]
                /\ UNCHANGED <<dedupe, agentCommands, chatRunBuffers, chatDeltaSentAt,
                               abortedControllers, chatEvents, lastAbort>>

\* chat.send, lines 858-871: saveSessionStore returned; agentCommand is invoked
\* with the signal of the request's controller and awaited.
ChatAfterSave(c) ==
  /\ chatSends' = [chatSends EXCEPT ![c].pc = "running"]
  /\ agentCommands' =
       Append(agentCommands,
              [runId |-> chatSends[c].params.idempotencyKey, request |-> c,
               state |-> "running"])
  /\ UNCHANGED <<dedupe, requests, responses, registered, bridgeRest>>

\* chat.send, lines 872-906: the awaited agentCommand settled; the outcome is
\* stored in the dedupe map and the finally block deletes the controller entry
\* of the clientRunId.
ChatSettled(c, ok) ==
  LET clientRunId == chatSends[c].params.idempotencyKey
      final == [ok |-> ok, status |-> IF ok THEN "ok" ELSE "error",
                runId |-> clientRunId, cached |-> FALSE]
  IN  /\ dedupe' = MapSet(dedupe, ChatDedupeKey(clientRunId), final)
      /\ chatAbortControllers' = MapDelete(chatAbortControllers, clientRunId)
      /\ chatSends' = [chatSends EXCEPT ![c].pc = "done", ![c].result = final.status]
      /\ UNCHANGED <<requests, responses, registered, chatRunBuffers, chatDeltaSentAt,
                     chatRunSessions, abortedControllers, chatEvents, lastAbort>>

(***************************************************************************)
(* Session keys (config/sessions.ts, routing/session-key.ts).  A sender    *)
(* address (ctx.From) is the sequence of its parts between colons, and a   *)
(* key is the string that joins parts with colons.  The inputs are trimmed *)
(* and in lower case, with no empty part.                                  *)
(***************************************************************************)
DEFAULT_AGENT_ID == "main"
DEFAULT_MAIN_KEY == "main"

GROUP_SURFACES ==
  {"whatsapp", "telegram", "discord", "signal", "imessage", "webchat", "slack"}

\* The ids that contain "@g.us".
GroupJids == {"1@g.us", "2@g.us"}

RECURSIVE Join(_)
Join(parts) ==
  IF parts = <<>> THEN ""
  ELSE IF Len(parts) = 1 THEN parts[1]
  ELSE parts[1] \o ":" \o Join(Tail(parts))

\* from.startsWith("group:") and raw.startsWith("group:")
StartsWithGroup(parts) == Len(parts) >= 2 /\ parts[1] = "group"

\* from.includes(":" + word + ":")
IncludesWord(parts, word) == \E i \in 2..(Len(parts) - 1) : parts[i] = word

IncludesGroupJid(parts) == \E i \in 1..Len(parts) : parts[i] \in GroupJids

normalizeMainKey(value) == IF value = "" THEN DEFAULT_MAIN_KEY ELSE value

buildAgentMainSessionKey(agentId, mainKey) ==
  Join(<<"agent", agentId, normalizeMainKey(mainKey)>>)

NoParts == [provider |-> "", kind |-> "", id |-> <<>>]

\* parseParts of resolveGroupSessionKey, lines 329-348
parseParts(parts) ==
  IF Len(parts) >= 2 /\ parts[1] \in GROUP_SURFACES
    THEN IF Len(parts) >= 3 /\ parts[2] \in {"group", "channel"}
           THEN [provider |-> parts[1], kind |-> parts[2],
                 id |-> SubSeq(parts, 3, Len(parts))]
           ELSE [provider |-> parts[1], kind |-> "", id |-> Tail(parts)]
  ELSE IF Len(parts) >= 2 /\ parts[1] \in {"group", "channel"}
    THEN [provider |-> "", kind |-> parts[1], id |-> Tail(parts)]
  ELSE NoParts

NoGroup == [group |-> FALSE]

\* isGroup, lines 306-311
IsGroupAddress(ctx) ==
  \/ Has(ctx, "ChatType") /\ ctx.ChatType = "group"
  \/ StartsWithGroup(ctx.From)
  \/ IncludesGroupJid(ctx.From)
  \/ IncludesWord(ctx.From, "group")
  \/ IncludesWord(ctx.From, "channel")

\* raw, lines 316-318
RawAddress(from) == IF StartsWithGroup(from) THEN Tail(from) ELSE from

\* id = raw || from when the parts gave none, lines 359-361
OrId(parsed, id) == IF parsed.id = <<>> THEN [parsed EXCEPT !.id = id] ELSE parsed

\* provider, kind and id after lines 350-362
ParsedAddress(from, raw) ==
  IF StartsWithGroup(from)
    THEN IF Len(raw) > 1 THEN parseParts(raw) ELSE [NoParts EXCEPT !.id = raw]
  ELSE IF IncludesGroupJid(from) /\ Len(from) = 1
    THEN [NoParts EXCEPT !.id = from]
  ELSE OrId(parseParts(from), from)

\* Lines 364-391, with id || raw || from for id and provider ?? providerHint
\* for resolvedProvider; a resolution without legacyKey has no such field.
GroupResolution(from, raw, kind, id, resolvedProvider) ==
  IF resolvedProvider = ""
    THEN [group |-> TRUE, key |-> <<"group">> \o raw, legacyKey |-> <<"group">> \o raw]
  ELSE IF StartsWithGroup(from) \/ IncludesGroupJid(from)
    THEN [group |-> TRUE,
          key |-> <<resolvedProvider, IF kind = "channel" THEN "channel" ELSE "group">>
                    \o id,
          legacyKey |-> <<"group">> \o id]
  ELSE [group |-> TRUE,
        key |-> <<resolvedProvider, IF kind = "channel" THEN "channel" ELSE "group">>
                  \o id]

ResolvedGroup(from, raw, parsed, providerHint) ==
  GroupResolution(from, raw, parsed.kind,
                  IF parsed.id # <<>> THEN parsed.id ELSE raw,
                  IF parsed.provider # "" THEN parsed.provider ELSE providerHint)

\* resolveGroupSessionKey(ctx): key and legacyKey as sequences of parts.
resolveGroupSessionKey(ctx) ==
  IF ctx.From = <<>> \/ ~IsGroupAddress(ctx) THEN NoGroup
  ELSE ResolvedGroup(ctx.From, RawAddress(ctx.From),
                     ParsedAddress(ctx.From, RawAddress(ctx.From)),
                     IF Has(ctx, "Provider") THEN ctx.Provider ELSE "")

\* normalizeE164(ctx.From): the number of the sender, its last part, with no
\* prefix and no colon.
normalizeE164(from) == <<from[Len(from)]>>

\* Lines 529-532, with the resolution of the group of ctx.
DerivedKey(group, from) ==
  IF group.group THEN group.key
  ELSE IF from # <<>> THEN normalizeE164(from)
  ELSE <<"unknown">>

deriveSessionKey(scope, ctx) ==
  IF scope = "global" THEN <<"global">>
  ELSE DerivedKey(resolveGroupSessionKey(ctx), ctx.From)

ScopedKeyNoChannel(scope, raw, mainKey) ==
  IF scope = "global" THEN Join(raw)
  ELSE IF ~(StartsWithGroup(raw) \/ IncludesWord(raw, "group"))
    THEN buildAgentMainSessionKey(DEFAULT_AGENT_ID, normalizeMainKey(mainKey))
  ELSE Join(<<"agent", DEFAULT_AGENT_ID>> \o raw)

\* Lines 546-558, with the key deriveSessionKey returned.
ScopedKey(scope, raw, mainKey) ==
  IF scope = "global" THEN Join(raw)
  ELSE IF ~(\/ StartsWithGroup(raw)
            \/ IncludesWord(raw, "group")
            \/ IncludesWord(raw, "channel"))
    THEN buildAgentMainSessionKey(DEFAULT_AGENT_ID, normalizeMainKey(mainKey))
  ELSE Join(<<"agent", DEFAULT_AGENT_ID>> \o raw)

resolveSessionKey(scope, ctx, mainKey) ==
  IF Has(ctx, "SessionKey") /\ ctx.SessionKey # "" THEN ctx.SessionKey
  ELSE ScopedKey(scope, deriveSessionKey(scope, ctx), mainKey)

(***************************************************************************)
(* initSessionState (auto-reply): the session of an inbound message.  The  *)
(* body of a message is the sequence of its words, without structural      *)
(* prefixes or mentions; the context names no parent session.              *)
(***************************************************************************)
DEFAULT_RESET_TRIGGERS == {"/new", "/reset"}
DEFAULT_IDLE_MINUTES == 60

\* sessionCfg?.<field> ?? fallback
CfgOr(cfg, f, fallback) == IF Has(cfg, f) THEN cfg[f] ELSE fallback

\* The loop over resetTriggers: the body is a trigger or starts with one and a
\* space, and the sender is authorized.
ResetRequested(body, triggers, resetAuthorized) ==
  resetAuthorized /\ body # <<>> /\ body[1] \in triggers

\* The store after the entry under the group's legacy key was moved to key.
LegacyMoved(store, key, legacyKey) ==
  [k \in (DOMAIN store \ {legacyKey}) \cup {key} |->
     IF k = key THEN store[legacyKey] ELSE store[k]]

MovedFrom(store, key, legacyKey) ==
  IF legacyKey # key /\ legacyKey \in DOMAIN store /\ key \notin DOMAIN store
    THEN LegacyMoved(store, key, legacyKey)
    ELSE store

MigrateLegacy(store, key, group) ==
  IF Has(group, "legacyKey") THEN MovedFrom(store, key, Join(group.legacyKey)) ELSE store

\* entry && Date.now() - entry.updatedAt < idleMs
IsFreshStrict(store, key, now, idleMs) ==
  key \in DOMAIN store /\ now - store[key].updatedAt < idleMs

\* entry && Date.now() - entry.updatedAt <= idleMs
IsFresh(store, key, now, idleMs) ==
  key \in DOMAIN store /\ now - store[key].updatedAt <= idleMs

\* Lines 2170-2267: the session id and the entry saved, given the store after
\* the migration (sessionStore), the key, whether a reset was requested and
\* whether the entry is fresh; randomUUID() yields uuid.  Of sessionEntry the
\* fields sessionId and updatedAt are carried: the others the model has are not
\* among its properties, so the spread keeps those of the stored entry.
SessionDecided(sessionStore, sessionKey, idleMs, isNewSession, sessionId, now) ==
  [sessionKey |-> sessionKey, sessionId |-> sessionId,
   isNewSession |-> isNewSession, idleMs |-> idleMs, now |-> now,
   sessionStore |->
     MapSet(sessionStore, sessionKey,
            IF sessionKey \in DOMAIN sessionStore
              THEN [sessionStore[sessionKey] EXCEPT !.sessionId = sessionId,
                                                     !.updatedAt = now]
              ELSE [sessionId |-> sessionId, updatedAt |-> now])]

SessionFor(sessionStore, sessionKey, idleMs, isNewSession, now, uuid) ==
  SessionDecided(sessionStore, sessionKey, idleMs, isNewSession,
                 IF isNewSession THEN uuid ELSE sessionStore[sessionKey].sessionId, now)

SessionAt(sessionStore, sessionKey, idleMs, reset, now, uuid) ==
  SessionFor(sessionStore, sessionKey, idleMs,
             reset \/ ~IsFresh(sessionStore, sessionKey, now, idleMs), now, uuid)

SessionUnder(store, sessionKey, groupResolution, idleMs, reset, now, uuid) ==
  SessionAt(MigrateLegacy(store, sessionKey, groupResolution), sessionKey, idleMs, reset,
            now, uuid)

\* initSessionState from the return of loadSessionStore to the call of
\* saveSessionStore (lines 2091-2267).
InitSession(store, ctx, cfg, commandAuthorized, now, uuid) ==
  SessionUnder(store,
               resolveSessionKey(CfgOr(cfg, "scope", "per-sender"), ctx,
                                 normalizeMainKey(CfgOr(cfg, "mainKey", ""))),
               resolveGroupSessionKey(ctx),
               Max(CfgOr(cfg, "idleMinutes", DEFAULT_IDLE_MINUTES), 1) * 60000,
               ResetRequested(ctx.Body, CfgOr(cfg, "resetTriggers", DEFAULT_RESET_TRIGGERS),
                              commandAuthorized),
               now, uuid)

\* store[key], as the set of the entries under key: none or one.
EntryOf(store, key) == IF key \in DOMAIN store THEN {store[key]} ELSE {}

\* The mapping the store file holds.
DiskStore(d) ==
  IF d.file.exists /\ Json5Parse(d.file.raw).ok
    THEN ParsedStore(Json5Parse(d.file.raw).value)
    ELSE <<>>

(***************************************************************************)
(* runWebHeartbeatOnce (web/auto-reply).  The options of a call are the    *)
(* recipient (to), the session id to force (sessionId, optional), and the  *)
(* reply resolver: whether it runs the reply flow, which initializes the   *)
(* session of the heartbeat's message with initSessionState, and the reply *)
(* it resolves to: "empty", "ack" (the heartbeat token alone, no media) or *)
(* "alert" (a text to deliver).                                            *)
(***************************************************************************)
\* sessionKey, lines 327-330
HeartbeatKey(opts, cfg) ==
  resolveSessionKey(CfgOr(cfg, "scope", "per-sender"), [From |-> opts.to],
                    normalizeMainKey(CfgOr(cfg, "mainKey", "")))

\* The message the reply resolver is called with, lines 391-395.
HeartbeatCtx(op) == [From |-> op.opts.to, Body |-> <<"heartbeat">>]

\* Lines 332-339: store[sessionKey] = {...current, sessionId, updatedAt: Date.now()}.
SessionIdForced(store, key, sessionId, now) ==
  MapSet(store, key,
         IF key \in DOMAIN store
           THEN [store[key] EXCEPT !.sessionId = sessionId, !.updatedAt = now]
           ELSE [sessionId |-> sessionId, updatedAt |-> now])

\* getSessionSnapshot(cfg, to, true), lines 506-530: the key and its entry.
SnapshotAt(store, key) == [key |-> key, entry |-> EntryOf(store, key)]

getSessionSnapshot(store, op) == SnapshotAt(store, HeartbeatKey(op.opts, op.cfg))

\* Lines 436-438: store[sessionSnapshot.key].updatedAt = sessionSnapshot.entry.updatedAt.
UpdatedAtRestored(store, snapshot) ==
  [store EXCEPT ![snapshot.key].updatedAt =
                   (CHOOSE e \in snapshot.entry : TRUE).updatedAt]

\* The operation has ended; as history, the entry of its key in the store file.
Finished(op) == [pc |-> "done", after |-> EntryOf(DiskStore(disk), op.sessionKey)] @@ op

\* next of updateLastRoute (sessions.ts lines 490-520); randomUUID() yields uuid.
\* An entry built field by field has the fields its literal names.
RouteEntry(store, key, params, now, uuid) ==
  [sessionId |-> IF key \in DOMAIN store THEN store[key].sessionId ELSE uuid,
   updatedAt |-> Max(IF key \in DOMAIN store THEN store[key].updatedAt ELSE 0, now),
   model |-> Inherit(store, key, "model"),
   lastProvider |-> params.provider,
   lastTo |-> IF Has(params, "to") /\ params.to # "" THEN params.to ELSE Undefined]

\* next of sessions.reset (server-bridge.ts lines 424-446).
ResetEntry(store, key, now, uuid) ==
  [sessionId |-> uuid,
   updatedAt |-> now,
   model |-> Inherit(store, key, "model"),
   label |-> Inherit(store, key, "label"),
   lastProvider |-> Inherit(store, key, "lastProvider"),
   lastTo |-> Inherit(store, key, "lastTo")]

\* The operation goes on to save store.
Saving(op, pc, store) == [op |-> [pc |-> pc] @@ op, save |-> TRUE, store |-> store]

\* The operation goes on without a save.
NotSaving(op) == [op |-> op, save |-> FALSE, store |-> <<>>]

InitLoaded(op, store, init) ==
  Saving([loaded |-> store, result |-> init] @@ op, "saving", init.sessionStore)

ReplyInitLoaded(op, init) == Saving(op, "replySaving", init.sessionStore)

\* Lines 435-439: the restore, when the snapshot has an entry and the store
\* has one under its key.
RestoreLoaded(op, store, snapshot) ==
  IF snapshot.entry # {} /\ snapshot.key \in DOMAIN store
    THEN Saving(op, "restoreSaving", UpdatedAtRestored(store, snapshot))
    ELSE NotSaving(Finished(op))

\* A session operation runs on from the return of loadSessionStore: what it
\* becomes and the store it saves, if it saves.
OpLoaded(op, o, store, now) ==
  IF op.kind = "init"
    THEN InitLoaded(op, store,
                    InitSession(store, op.ctx, op.cfg, op.commandAuthorized, now, o))
  ELSE IF op.kind = "route"
    THEN Saving(op, "saving",
                MapSet(store, op.params.sessionKey,
                       RouteEntry(store, op.params.sessionKey, op.params, now, o)))
  ELSE IF op.kind = "reset"
    THEN Saving(op, "saving",
                MapSet(store, op.params.key, ResetEntry(store, op.params.key, now, o)))
  ELSE IF op.pc = "override"
    THEN Saving(op, "overrideSaving",
                SessionIdForced(store, op.sessionKey, op.opts.sessionId, now))
  ELSE IF op.pc = "snapshot"
    THEN NotSaving([pc |-> "resolving",
                    sessionSnapshot |-> getSessionSnapshot(store, op)] @@ op)
  ELSE IF op.pc = "replyInit"
    THEN ReplyInitLoaded(op, InitSession(store, HeartbeatCtx(op), op.cfg, FALSE, now, o))
  ELSE RestoreLoaded(op, store, op.sessionSnapshot)

Continued(ops, o, next, store, cache, read) ==
  /\ sessionOps' = MapSet(ops, o, next.op)
  /\ IF next.save
       THEN /\ SESSION_STORE_CACHE' = invalidateSessionStoreCache(cache)
            /\ savers' = SaveStarted(savers, o, next.store)
            /\ settled' = [settled EXCEPT !.known = FALSE]
            /\ lastLoad' = [Loaded(store, read) EXCEPT !.valid = FALSE]
       ELSE /\ SESSION_STORE_CACHE' = cache
            /\ lastLoad' = Loaded(store, read)
            /\ UNCHANGED <<savers, settled>>

\* A caller that only loads keeps the mapping loadSessionStore returned
\* (store; returned is the history of it).  The entries of the mapping are the
\* objects JSON5.parse made in the load that read the file: a return served from
\* the cache is a copy of the cached mapping, { ...cached.store }, with the
\* entries of the cached one, and the cached mapping is a copy, { ...store },
\* with the entries of the returned one (sessions.ts lines 404 and 427).  nth
\* numbers the returns in order, served tells the ones served from the cache,
\* and own is the set of keys the caller has since set itself.
Holding(ops, o, store, read) ==
  [pc |-> "holding", store |-> store, returned |-> store, own |-> {},
   served |-> (read = "cache"),
   nth |-> Cardinality({p \in DOMAIN ops : ops[p].pc # "loading"}),
   changes |-> 0] @@ ops[o]

OpAfterLoad(ops, o, store, cache, read) ==
  Continued(ops, o,
            IF ops[o].kind = "load"
              THEN NotSaving(Holding(ops, o, store, read))
              ELSE OpLoaded(ops[o], o, store, wallClock),
            store, cache, read)

\* saveSessionStore returned to session operation o.  A heartbeat that forced
\* the session id goes on into getSessionSnapshot, which calls loadSessionStore.
OpAfterSave(o) ==
  IF sessionOps[o].pc = "overrideSaving"
    THEN /\ sessionOps' = [sessionOps EXCEPT ![o].pc = "snapshot"]
         /\ loader' = [pc |-> "enter", caller |-> o]
  ELSE IF sessionOps[o].pc = "replySaving"
    THEN /\ sessionOps' = [sessionOps EXCEPT ![o].pc = "resolved"]
         /\ UNCHANGED loader
  ELSE IF sessionOps[o].pc = "restoreSaving"
    THEN /\ sessionOps' = [sessionOps EXCEPT ![o] = Finished(sessionOps[o])]
         /\ UNCHANGED loader
    ELSE /\ sessionOps' = [sessionOps EXCEPT ![o].pc = "done"]
         /\ UNCHANGED loader

\* saveSessionStore threw: no session operation handles the error.
OpFailed(o) == sessionOps' = [sessionOps EXCEPT ![o].pc = "failed"]

SessionsInit ==
  /\ sessionOps = <<>>
  /\ wallClock = 2

(***************************************************************************)
(* The operations on the store.  loadSessionStore is synchronous: while    *)
(* the thread is inside it (loader.pc # "idle") no other JavaScript runs,  *)
(* but the thread pool does, between any two of its system calls.          *)
(***************************************************************************)
StoreInit(ttl, file) ==
  /\ SESSION_STORE_CACHE = <<>>
  /\ ttlMs = ttl
  /\ disk = [dir |-> TRUE, file |-> file, tmp |-> [id \in SaverIds |-> NoFile]]
  /\ fsClock = 2
  /\ loader = Idle
  /\ savers = <<>>
  /\ nSaves = 0
  /\ settled = [known |-> FALSE, store |-> <<>>, saved |-> <<>>, id |-> "", threw |-> FALSE]
  /\ lastLoad = [valid |-> FALSE, store |-> <<>>, read |-> "none"]

AgentInit ==
  /\ dedupe = <<>>
  /\ requests = <<>>
  /\ responses = <<>>
  /\ agentCommands = <<>>
  /\ registered = {}

NoAbort == [n |-> 0, params |-> <<>>, response |-> <<>>]

BridgeInit ==
  /\ chatSends = <<>>
  /\ chatAbortControllers = <<>>
  /\ chatRunBuffers = <<>>
  /\ chatDeltaSentAt = <<>>
  /\ chatRunSessions = <<>>
  /\ abortedControllers = {}
  /\ chatEvents = <<>>
  /\ lastAbort = NoAbort

\* loadSessionStore returns store to its caller, which runs on to its next await.
LoadReturn(reqs, sends, ops, caller, store, cache, read) ==
  IF caller \in RequestIds
    THEN /\ AgentAfterLoad(reqs, caller, store, cache, read)
         /\ chatSends' = sends
         /\ sessionOps' = ops
         /\ UNCHANGED bridgeRest
  ELSE IF caller \in ChatIds
    THEN /\ ChatAfterLoad(sends, caller, store, cache, read)
         /\ requests' = reqs
         /\ sessionOps' = ops
         /\ UNCHANGED responses
  ELSE IF caller \in OpIds
    THEN /\ OpAfterLoad(ops, caller, store, cache, read)
         /\ requests' = reqs
         /\ chatSends' = sends
         /\ UNCHANGED <<dedupe, responses, agentCommands, registered, bridgeRest>>
    ELSE /\ SESSION_STORE_CACHE' = cache
         /\ lastLoad' = Loaded(store, read)
         /\ requests' = reqs
         /\ chatSends' = sends
         /\ sessionOps' = ops
         /\ UNCHANGED <<savers, settled, dedupe, responses, agentCommands, registered,
                        bridgeRest>>

\* loadSessionStore up to its first system call after the cache check (lines
\* 398-408): a hit returns a copy of the cached store.
LoadEnter(reqs, sends, ops, caller) ==
  IF CacheHit(SESSION_STORE_CACHE, disk)
    THEN /\ loader' = Idle
         /\ LoadReturn(reqs, sends, ops, caller, SESSION_STORE_CACHE[StorePath].store,
                       SESSION_STORE_CACHE, "cache")
    ELSE /\ loader' = [pc |-> "stat", caller |-> caller]
         /\ SESSION_STORE_CACHE' = CacheAfterMiss(SESSION_STORE_CACHE)
         /\ requests' = reqs
         /\ chatSends' = sends
         /\ sessionOps' = ops
         /\ UNCHANGED <<savers, settled, lastLoad, dedupe, responses, agentCommands,
                        registered, bridgeRest>>

\* loadSessionStore(storePath), called by the environment.
LoadCall ==
  /\ loader.pc = "idle"
  /\ LoadEnter(requests, chatSends, sessionOps, "env")
  /\ UNCHANGED <<queueVars, ttlMs, disk, fsClock, nSaves, wallClock>>

\* The thread enters the loadSessionStore call of the session operation that
\* resumed from its save.
LoadStart ==
  /\ loader.pc = "enter"
  /\ LoadEnter(requests, chatSends, sessionOps, loader.caller)
  /\ UNCHANGED <<queueVars, ttlMs, disk, fsClock, nSaves, wallClock>>

\* Line 412: let mtimeMs = getFileMtimeMs(storePath).
LoadStat ==
  /\ loader.pc = "stat"
  /\ loader' = [pc |-> "read", caller |-> loader.caller, mtimeMs |-> getFileMtimeMs(disk)]
  /\ UNCHANGED <<queueVars, SESSION_STORE_CACHE, ttlMs, disk, fsClock, savers, nSaves,
                 settled, lastLoad, agentVars, bridgeVars, sessionVars>>

\* Lines 414-418: readFileSync and JSON5.parse.  When either throws, the catch
\* leaves store = {} and mtimeMs as line 412 set it, and the call finishes.
LoadRead ==
  /\ loader.pc = "read"
  /\ IF disk.file.exists /\ Json5Parse(disk.file.raw).ok
       THEN /\ loader' = [pc |-> "restat", caller |-> loader.caller,
                          mtimeMs |-> loader.mtimeMs,
                          store |-> ParsedStore(Json5Parse(disk.file.raw).value)]
            /\ UNCHANGED <<SESSION_STORE_CACHE, savers, settled, lastLoad, agentVars,
                           bridgeVars, sessionVars>>
       ELSE /\ loader' = Idle
            /\ LoadReturn(requests, chatSends, sessionOps, loader.caller, <<>>,
                          CacheAfterLoad(SESSION_STORE_CACHE, <<>>, loader.mtimeMs),
                          ReadFailure(disk.file))
  /\ UNCHANGED <<queueVars, ttlMs, disk, fsClock, nSaves, wallClock>>

\* Lines 419-434: mtimeMs = getFileMtimeMs(storePath) ?? mtimeMs, the cache entry,
\* and the return.
LoadRestat ==
  /\ loader.pc = "restat"
  /\ loader' = Idle
  /\ LET current == getFileMtimeMs(disk)
         mtimeMs == IF current # NoMtime THEN current ELSE loader.mtimeMs
     IN  LoadReturn(requests, chatSends, sessionOps, loader.caller, loader.store,
                    CacheAfterLoad(SESSION_STORE_CACHE, loader.store, mtimeMs),
                    "complete")
  /\ UNCHANGED <<queueVars, ttlMs, disk, fsClock, nSaves, wallClock>>

\* saveSessionStore(storePath, store), called by the environment: the cache entry
\* is deleted and mkdir is issued.
SaveCall(id, store) ==
  /\ loader.pc = "idle"
  /\ nSaves < MaxSaves
  /\ id \notin DOMAIN savers
  /\ SESSION_STORE_CACHE' = invalidateSessionStoreCache(SESSION_STORE_CACHE)
  /\ savers' = SaveStarted(savers, id, store)
  /\ nSaves' = nSaves + 1
  /\ settled' = [settled EXCEPT !.known = FALSE]
  /\ lastLoad' = [lastLoad EXCEPT !.valid = FALSE]
  /\ UNCHANGED <<queueVars, ttlMs, disk, fsClock, loader, agentVars, bridgeVars, sessionVars>>

\* The thread pool runs the file-system operation saver id awaits.
FsRun(id) ==
  /\ id \in DOMAIN savers
  /\ ~savers[id].done
  /\ LET out == FsEffect(disk, fsClock, id, savers[id])
     IN  /\ disk' = out.disk
         /\ fsClock' = out.clock
         /\ savers' = [savers EXCEPT ![id].done = TRUE, ![id].err = out.err,
                                     ![id].fd = out.fd]
  /\ UNCHANGED <<queueVars, SESSION_STORE_CACHE, ttlMs, loader, nSaves, settled,
                 lastLoad, agentVars, bridgeVars, sessionVars>>

\* The operation saver id awaits fails with an error other than ENOENT.  A
\* failing write of the temporary file may have created the file (partial).
FsFail(id, partial) ==
  /\ id \in DOMAIN savers
  /\ ~savers[id].done
  /\ savers[id].pc # "rm"
  /\ IF partial /\ savers[id].pc = "writeTmp" /\ disk.dir
       THEN /\ disk' = [disk EXCEPT !.tmp[id] = File(Truncated, fsClock)]
            /\ fsClock' = fsClock + 1
       ELSE UNCHANGED <<disk, fsClock>>
  /\ savers' = [savers EXCEPT ![id].done = TRUE, ![id].err = OtherError,
                              ![id].failed = TRUE]
  /\ UNCHANGED <<queueVars, SESSION_STORE_CACHE, ttlMs, loader, nSaves, settled,
                 lastLoad, agentVars, bridgeVars, sessionVars>>

\* saveSessionStore resumes from the await of an operation that has settled and
\* issues the next one.
SaveResume(id) ==
  /\ loader.pc = "idle"
  /\ id \in DOMAIN savers
  /\ savers[id].done
  /\ NextOp(savers[id]) \notin {"return", "throw"}
  /\ savers' = [savers EXCEPT ![id].pc = NextOp(savers[id]), ![id].done = FALSE,
                              ![id].err = ""]
  /\ UNCHANGED <<queueVars, SESSION_STORE_CACHE, ttlMs, disk, fsClock, loader, nSaves,
                 settled, lastLoad, agentVars, bridgeVars, sessionVars>>

\* saveSessionStore returns after the rm of its finally block; its caller runs on.
SaveReturn(id) ==
  /\ loader.pc = "idle"
  /\ id \in DOMAIN savers
  /\ savers[id].done
  /\ NextOp(savers[id]) = "return"
  /\ savers' = MapDelete(savers, id)
  /\ settled' = [known |-> savers[id].undisturbed,
                 store |-> JsonStringify(savers[id].store).value,
                 saved |-> savers[id].store, id |-> id, threw |-> FALSE]
  /\ lastLoad' = [lastLoad EXCEPT !.valid = FALSE]
  /\ IF id \in RequestIds
       THEN AgentAccept(requests, id) /\ UNCHANGED <<bridgeVars, sessionVars, loader>>
     ELSE IF id \in ChatIds THEN ChatAfterSave(id) /\ UNCHANGED <<sessionOps, loader>>
     ELSE IF id \in OpIds THEN OpAfterSave(id) /\ UNCHANGED <<agentVars, bridgeVars>>
     ELSE UNCHANGED <<agentVars, bridgeVars, sessionVars, loader>>
  /\ UNCHANGED <<queueVars, SESSION_STORE_CACHE, ttlMs, disk, fsClock, nSaves, wallClock>>

\* saveSessionStore throws to its caller.  The `agent` handler does not catch
\* the error (agent.ts line 124); chat.send catches it, stores the error in the
\* dedupe map and deletes the controller (server-bridge.ts lines 885-906).
SaveThrow(id) ==
  /\ loader.pc = "idle"
  /\ id \in DOMAIN savers
  /\ savers[id].done
  /\ NextOp(savers[id]) = "throw"
  /\ savers' = MapDelete(savers, id)
  /\ settled' = [settled EXCEPT !.id = id, !.threw = TRUE]
  /\ lastLoad' = [lastLoad EXCEPT !.valid = FALSE]
  /\ IF id \in RequestIds
       THEN /\ requests' = [requests EXCEPT ![id].pc = "failed"]
            /\ UNCHANGED <<dedupe, responses, agentCommands, registered, bridgeVars, sessionVars>>
     ELSE IF id \in ChatIds
       THEN ChatSettled(id, FALSE) /\ UNCHANGED <<agentCommands, sessionOps>>
     ELSE IF id \in OpIds THEN OpFailed(id) /\ UNCHANGED <<agentVars, bridgeVars>>
     ELSE UNCHANGED <<agentVars, bridgeVars, sessionVars>>
  /\ UNCHANGED <<queueVars, SESSION_STORE_CACHE, ttlMs, disk, fsClock, loader, nSaves,
                 wallClock>>

\* Another program replaces the store file by one with the text raw, creating
\* the directory when it is missing.
FileWritten(raw) ==
  /\ fsClock < 2 + MaxForeignWrites
  /\ disk' = [disk EXCEPT !.dir = TRUE, !.file = File(raw, fsClock)]
  /\ fsClock' = fsClock + 1
  /\ savers' = Disturbed(savers)
  /\ settled' = [settled EXCEPT !.known = FALSE]
  /\ lastLoad' = [lastLoad EXCEPT !.valid = FALSE]
  /\ UNCHANGED <<queueVars, SESSION_STORE_CACHE, ttlMs, loader, nSaves, agentVars,
                 bridgeVars, sessionVars>>

\* The environment removes the store's directory with everything in it.
DirRemoved ==
  /\ disk.dir
  /\ disk' = [dir |-> FALSE, file |-> NoFile, tmp |-> [id \in SaverIds |-> NoFile]]
  /\ savers' = Disturbed(savers)
  /\ settled' = [settled EXCEPT !.known = FALSE]
  /\ lastLoad' = [lastLoad EXCEPT !.valid = FALSE]
  /\ UNCHANGED <<queueVars, SESSION_STORE_CACHE, ttlMs, fsClock, loader, nSaves,
                 agentVars, bridgeVars, sessionVars>>

(***************************************************************************)
(* The operations of the `agent` method.                                   *)
(***************************************************************************)
\* A request arrives: validation, the dedupe lookup, and for a request with a
\* session key loadSessionEntry (lines 31-80).
AgentCall(r, p) ==
  /\ loader.pc = "idle"
  /\ r \notin DOMAIN requests
  /\ LET reqs == MapSet(requests, r, [pc |-> "loading", params |-> p])
         done == [reqs EXCEPT ![r].pc = "done"]
         key == DedupeKey(p.idempotencyKey)
     IN  IF ~p.valid
           THEN /\ requests' = done
                /\ responses' = Respond(responses, r, InvalidRequest)
                /\ UNCHANGED <<dedupe, agentCommands, registered, SESSION_STORE_CACHE,
                               loader, savers, settled, lastLoad, bridgeVars, sessionVars>>
         ELSE IF key \in DOMAIN dedupe
           THEN /\ requests' = done
                /\ responses' = Respond(responses, r, [dedupe[key] EXCEPT !.cached = TRUE])
                /\ UNCHANGED <<dedupe, agentCommands, registered, SESSION_STORE_CACHE,
                               loader, savers, settled, lastLoad, bridgeVars, sessionVars>>
         ELSE IF ~Has(p, "sessionKey")
           THEN /\ AgentAccept(reqs, r)
                /\ UNCHANGED <<SESSION_STORE_CACHE, loader, savers, settled, lastLoad,
                               bridgeVars, sessionVars>>
         ELSE LoadEnter(reqs, chatSends, sessionOps, r)
  /\ UNCHANGED <<queueVars, ttlMs, disk, fsClock, nSaves, wallClock>>

\* The promise of agentCommand invocation i settles.  For a run of the `agent`
\* method the final outcome replaces the ack in the dedupe map and is sent as a
\* second response (lines 262-295); a run of chat.send resumes that request.
AgentCommandSettled(i, ok) ==
  /\ loader.pc = "idle"
  /\ i \in 1..Len(agentCommands)
  /\ agentCommands[i].state = "running"
  /\ agentCommands' = [agentCommands EXCEPT ![i].state = "done"]
  /\ LET run == agentCommands[i]
         final == [ok |-> ok, status |-> IF ok THEN "ok" ELSE "error",
                   runId |-> run.runId, cached |-> FALSE]
     IN  IF run.request \in ChatIds
           THEN ChatSettled(run.request, ok)
           ELSE /\ dedupe' = MapSet(dedupe, DedupeKey(run.runId), final)
                /\ responses' = Respond(responses, run.request, final)
                /\ requests' = [requests EXCEPT ![run.request].pc = "done"]
                /\ UNCHANGED <<registered, bridgeVars>>
  /\ UNCHANGED <<queueVars, storeVars, sessionVars>>

(***************************************************************************)
(* The operations of the bridge.                                           *)
(***************************************************************************)
\* An agentCommand invoked by chat.send for clientRunId is running.
ChatRunning(clientRunId) ==
  \E i \in 1..Len(agentCommands) :
    /\ agentCommands[i].runId = clientRunId
    /\ agentCommands[i].request \in ChatIds
    /\ agentCommands[i].state = "running"

\* chat.send arrives (lines 740-805): validation, then loadSessionEntry.  The
\* field busy is history: whether a run of the request's key was running then.
ChatSendCall(c, p) ==
  /\ loader.pc = "idle"
  /\ c \notin DOMAIN chatSends
  /\ LET sends == MapSet(chatSends, c,
                         [pc |-> "loading", params |-> p, result |-> "",
                          busy |-> ChatRunning(p.idempotencyKey)])
     IN  IF ~p.valid
           THEN /\ chatSends' = [sends EXCEPT ![c].pc = "done", ![c].result = "invalid"]
                /\ UNCHANGED <<agentVars, bridgeRest, sessionOps, SESSION_STORE_CACHE, loader,
                               savers, settled, lastLoad>>
           ELSE LoadEnter(requests, sends, sessionOps, c)
  /\ UNCHANGED <<queueVars, ttlMs, disk, fsClock, nSaves, wallClock>>

\* An event of a running chat run reaches the gateway, which buffers the text of
\* the run and notes when it last sent a delta.
ChatDelta(runId) ==
  /\ loader.pc = "idle"
  /\ ChatRunning(runId)
  /\ runId \notin DOMAIN chatRunBuffers
  /\ chatRunBuffers' = MapSet(chatRunBuffers, runId, "text")
  /\ chatDeltaSentAt' = MapSet(chatDeltaSentAt, runId, fsClock)
  /\ UNCHANGED <<queueVars, storeVars, agentVars, sessionVars, chatSends, chatAbortControllers,
                 chatRunSessions, abortedControllers, chatEvents, lastAbort>>

AbortResponse(ok, aborted, error) == [ok |-> ok, aborted |-> aborted, error |-> error]

\* active.sessionKey !== sessionKey, line 711
SessionKeyIgnored(active, sessionKey) == TRUE

SessionKeyMatches(active, sessionKey) == active.sessionKey = sessionKey

\* chat.abort, lines 688-739.
ChatAbort(p) ==
  /\ loader.pc = "idle"
  /\ lastAbort.n < MaxAborts
  /\ LET Answer(res) == [n |-> lastAbort.n + 1, params |-> p, response |-> res]
         unchanged == UNCHANGED <<chatAbortControllers, chatRunBuffers, chatDeltaSentAt,
                                  chatRunSessions, abortedControllers, chatEvents>>
     IN  IF ~p.valid
           THEN /\ lastAbort' = Answer(AbortResponse(FALSE, FALSE, "INVALID_REQUEST"))
                /\ unchanged
         ELSE IF p.runId \notin DOMAIN chatAbortControllers
           THEN /\ lastAbort' = Answer(AbortResponse(TRUE, FALSE, ""))
                /\ unchanged
         ELSE IF ~SessionKeyMatches(chatAbortControllers[p.runId], p.sessionKey)
           THEN /\ lastAbort' = Answer(AbortResponse(FALSE, FALSE, "INVALID_REQUEST"))
                /\ unchanged
         ELSE /\ abortedControllers' =
                   abortedControllers \cup {chatAbortControllers[p.runId].controller}
              /\ chatAbortControllers' = MapDelete(chatAbortControllers, p.runId)
              /\ chatRunBuffers' = MapDelete(chatRunBuffers, p.runId)
              /\ chatDeltaSentAt' = MapDelete(chatDeltaSentAt, p.runId)
              /\ chatRunSessions' =
                   removeChatRun(chatRunSessions, p.runId, p.runId, p.sessionKey)
              /\ chatEvents' =
                   Append(chatEvents, [runId |-> p.runId, sessionKey |-> p.sessionKey,
                                       state |-> "aborted"])
              /\ lastAbort' = Answer(AbortResponse(TRUE, TRUE, ""))
  /\ UNCHANGED <<queueVars, storeVars, agentVars, sessionVars, chatSends>>

(***************************************************************************)
(* Inputs.                                                                 *)
(***************************************************************************)
Keys == {"k1"}

\* The channels of the triggers below.
Channels == {"telegram", "slack"}

\* Message ids: two distinct ones, the first with white space around it, and one
\* that is white space only.
M1 == <<"m", "1">>
M2 == <<"m", "2">>
PaddedM1 == <<" ">> \o M1 \o <<" ">>
Blank == <<" ">>

TelegramA == [originatingChannel |-> "telegram", originatingTo |-> "chat1"]
SlackB == [originatingChannel |-> "slack", originatingTo |-> "C1"]

Trigger(prompt, run, more) ==
  [x \in {"prompt", "run"} \cup DOMAIN more |->
     IF x = "prompt" THEN prompt ELSE IF x = "run" THEN run ELSE more[x]]

Settings(modes, debounces, caps, drops) ==
  { [mode |-> m, debounceMs |-> d, cap |-> c, dropPolicy |-> p] :
      m \in modes, d \in debounces, c \in caps, p \in drops }

EnqueueAny(triggers, settings, dedupeModes) ==
  \E k \in Keys, t \in triggers, s \in settings, d \in dedupeModes : Enqueue(k, t, s, d)

ScheduleAny == \E k \in Keys : ScheduleDrain(k)

ResolveAny == \E i \in 1..Len(drains) : DebounceResolved(i)
ElapseAny == \E i \in 1..Len(drains) : DebounceElapsed(i)
ReturnAny == \E i \in 1..Len(drains) : RunReturn(i)
ThrowAny == \E i \in 1..Len(drains) : RunThrow(i)

vars == <<queueVars, storeVars, agentVars, bridgeVars, sessionVars>>

(***************************************************************************)
(* Spec: enqueues with changing mode and debounce window against the drain *)
(* loop and the clock.                                                     *)
(***************************************************************************)
Triggers ==
  { Trigger("A", "p1", [messageId |-> M1] @@ TelegramA),
    Trigger("B", "p2", SlackB) }

SettingsPool == Settings({"followup", "collect"}, {0, 1, 2}, {2}, {"summarize"})

Init == QueueInit(Channels) /\ StoreInit(CacheTtlMs, NoFile) /\ AgentInit /\ BridgeInit
        /\ SessionsInit

Next ==
  \/ EnqueueAny(Triggers, SettingsPool, {"message-id"})
  \/ ScheduleAny
  \/ ResolveAny
  \/ ElapseAny
  \/ ReturnAny
  \/ ThrowAny
  \/ Tick

Spec == Init /\ [][Next]_vars

(***************************************************************************)
(* SpecFollowup: debounceMs = 0 and modes other than collect, with every   *)
(* drop policy, two caps and two dedupe modes.  With a window of 0         *)
(* waitForQueueDebounce never sleeps, so the clock plays no part.          *)
(***************************************************************************)
FollowupTriggers ==
  { Trigger("A", "p1", [messageId |-> M1] @@ TelegramA),
    Trigger("B", "p2", TelegramA) }

FollowupSettings ==
  Settings({"followup", "steer"}, {0}, {1, 2}, {"old", "new", "summarize"})

NextFollowup ==
  \/ EnqueueAny(FollowupTriggers, FollowupSettings, {"message-id", "none"})
  \/ ScheduleAny
  \/ ResolveAny
  \/ ReturnAny
  \/ ThrowAny

SpecFollowup == Init /\ [][NextFollowup]_vars

(***************************************************************************)
(* SpecCollect: collect mode with items of one route, of two routes, of a  *)
(* route that names a channel but no destination, and of no route, under   *)
(* several answers of isRoutableChannel.                                   *)
(***************************************************************************)
TelegramOnly == [originatingChannel |-> "telegram"]

CollectTriggers ==
  { Trigger("A", "p1", TelegramA),
    Trigger("B", "p2", TelegramA),
    Trigger("C", "p1", SlackB),
    Trigger("N", "p1", TelegramOnly),
    Trigger("U", "p2", <<>>) }

CollectSettings == Settings({"collect"}, {0, 1}, {2}, {"old", "summarize"})

NextCollect ==
  \/ EnqueueAny(CollectTriggers, CollectSettings, {"none"})
  \/ ScheduleAny
  \/ ResolveAny
  \/ ElapseAny
  \/ ReturnAny
  \/ ThrowAny
  \/ Tick

\* isRoutableChannel accepts both channels of the triggers, one of them, or none.
RoutablePool == {{"telegram", "slack"}, {"telegram"}, {}}

InitCollect ==
  /\ \E channels \in RoutablePool : QueueInit(channels)
  /\ StoreInit(CacheTtlMs, NoFile)
  /\ AgentInit
  /\ BridgeInit
  /\ SessionsInit

SpecCollect == InitCollect /\ [][NextCollect]_vars

(***************************************************************************)
(* SpecLive: every runFollowup call returns, and the loop, its timer and   *)
(* the clock keep running (the event loop runs every continuation that is  *)
(* ready).  Enqueues change mode, cap and drop policy.                     *)
(***************************************************************************)
LiveTriggers == { Trigger("A", "p1", TelegramA), Trigger("B", "p2", TelegramA) }

LiveSettings ==
  Settings({"followup", "collect"}, {0, 1}, {1}, {"old", "new", "summarize"})

NextLive ==
  \/ EnqueueAny(LiveTriggers, LiveSettings, {"none"})
  \/ ScheduleAny
  \/ ResolveAny
  \/ ElapseAny
  \/ ReturnAny
  \/ Tick

SpecLive ==
  /\ Init
  /\ [][NextLive]_vars
  /\ WF_vars(ResolveAny)
  /\ WF_vars(ElapseAny)
  /\ WF_vars(ReturnAny)
  /\ WF_vars(Tick)

(***************************************************************************)
(* SpecMessageId: every enqueue uses the message-id dedupe mode; the runs  *)
(* differ in message id (also only by white space, or by being white space *)
(* only or missing), in route and in prompt.                               *)
(***************************************************************************)
TelegramThread == TelegramA @@ [originatingAccountId |-> "acct", originatingThreadId |-> 7]

DedupeTriggers ==
  { Trigger("A", "p1", [messageId |-> M1] @@ TelegramA),
    Trigger("B", "p1", [messageId |-> PaddedM1] @@ TelegramA),
    Trigger("A", "p1", [messageId |-> M2] @@ TelegramA),
    Trigger("A", "p1", [messageId |-> M1] @@ TelegramThread),
    Trigger("A", "p1", [messageId |-> M1] @@ SlackB),
    Trigger("A", "p1", [messageId |-> Blank] @@ TelegramA),
    Trigger("A", "p1", TelegramA),
    Trigger("B", "p1", [messageId |-> M1]) }

DedupeSettings == Settings({"followup"}, {0}, {3}, {"summarize"})

NextMessageId ==
  \/ EnqueueAny(DedupeTriggers, DedupeSettings, {"message-id"})
  \/ ScheduleAny
  \/ ResolveAny
  \/ ReturnAny

SpecMessageId == Init /\ [][NextMessageId]_vars

(***************************************************************************)
(* SpecDedupe: the same runs under every dedupe mode.                      *)
(***************************************************************************)
NextDedupe ==
  \/ EnqueueAny(DedupeTriggers, DedupeSettings, {"message-id", "prompt", "none"})
  \/ ScheduleAny
  \/ ResolveAny
  \/ ReturnAny

SpecDedupe == Init /\ [][NextDedupe]_vars

(***************************************************************************)
(* SpecThrow: every runFollowup call settles, by returning or by           *)
(* rejecting, and the loop, its timer and the clock keep running.  The     *)
(* drop policy is summarize throughout.                                    *)
(***************************************************************************)
ThrowSettings == Settings({"followup", "collect"}, {0, 1}, {2}, {"summarize"})

SettleAny == ReturnAny \/ ThrowAny

NextThrow ==
  \/ EnqueueAny(LiveTriggers, ThrowSettings, {"none"})
  \/ ScheduleAny
  \/ ResolveAny
  \/ ElapseAny
  \/ ReturnAny
  \/ ThrowAny
  \/ Tick

SpecThrow ==
  /\ Init
  /\ [][NextThrow]_vars
  /\ WF_vars(ResolveAny)
  /\ WF_vars(ElapseAny)
  /\ WF_vars(SettleAny)
  /\ WF_vars(Tick)

(***************************************************************************)
(* SpecKeys: two session keys, each with its enqueues, its drain and its   *)
(* executor calls, which return or reject.  The debounce window is 0, so   *)
(* the clock plays no part.                                                *)
(***************************************************************************)
TwoKeys == {"k1", "k2"}

KeysSettings == Settings({"followup", "collect"}, {0}, {1}, {"summarize"})

EnqueueEither ==
  \E k \in TwoKeys, t \in LiveTriggers, s \in KeysSettings : Enqueue(k, t, s, "none")

ScheduleEither == \E k \in TwoKeys : ScheduleDrain(k)

NextKeys ==
  \/ EnqueueEither
  \/ ScheduleEither
  \/ ResolveAny
  \/ ReturnAny
  \/ ThrowAny

SpecKeys == Init /\ [][NextKeys]_vars

(***************************************************************************)
(* SpecStore: loads and saves of the store by the environment, against the *)
(* thread pool, the clock and the removal of the store's directory.        *)
(***************************************************************************)
StoreA == [main |-> [sessionId |-> "sA", updatedAt |-> 1, lastTo |-> Undefined]]
StoreB == [main |-> [sessionId |-> "sB", updatedAt |-> 1, lastTo |-> "chat1"]]

StorePool == {StoreA, StoreB}

\* The environment's calls are told apart by the first name not in use.
FreeSaver == IF "s1" \in DOMAIN savers THEN "s2" ELSE "s1"

SaveAny == \E store \in StorePool : SaveCall(FreeSaver, store)
FsAny == \E id \in SaverIds : FsRun(id)
SaveResumeAny == \E id \in SaverIds : SaveResume(id)
SaveReturnAny == \E id \in SaverIds : SaveReturn(id)

NextStore ==
  \/ LoadCall
  \/ LoadStat
  \/ LoadRead
  \/ LoadRestat
  \/ SaveAny
  \/ FsAny
  \/ SaveResumeAny
  \/ SaveReturnAny
  \/ DirRemoved
  \/ Tick

SpecStore == Init /\ [][NextStore]_vars

(***************************************************************************)
(* SpecCache: the same operations with the cache of the process enabled or *)
(* disabled (a TTL of 0).                                                  *)
(***************************************************************************)
InitCache ==
  /\ QueueInit(Channels)
  /\ \E ttl \in {0, CacheTtlMs} : StoreInit(ttl, NoFile)
  /\ AgentInit
  /\ BridgeInit
  /\ SessionsInit

SpecCache == InitCache /\ [][NextStore]_vars

(***************************************************************************)
(* SpecUncached: loads and saves of the store by the environment with the  *)
(* cache disabled, against the thread pool and the removal of the store's  *)
(* directory.                                                              *)
(***************************************************************************)
InitUncached ==
  /\ QueueInit(Channels)
  /\ StoreInit(0, NoFile)
  /\ AgentInit
  /\ BridgeInit
  /\ SessionsInit

NextUncached ==
  \/ LoadCall
  \/ LoadStat
  \/ LoadRead
  \/ LoadRestat
  \/ SaveAny
  \/ FsAny
  \/ SaveResumeAny
  \/ SaveReturnAny
  \/ DirRemoved

SpecUncached == InitUncached /\ [][NextUncached]_vars

(***************************************************************************)
(* SpecSaveFail: saves of the store by the environment against a thread    *)
(* pool whose operations can fail, and the removal of the store's          *)
(* directory.                                                              *)
(***************************************************************************)
FsFailAny == \E id \in SaverIds, partial \in BOOLEAN : FsFail(id, partial)
SaveThrowAny == \E id \in SaverIds : SaveThrow(id)

NextSaveFail ==
  \/ SaveAny
  \/ FsAny
  \/ FsFailAny
  \/ SaveResumeAny
  \/ SaveReturnAny
  \/ SaveThrowAny
  \/ DirRemoved

SpecSaveFail == InitUncached /\ [][NextSaveFail]_vars

(***************************************************************************)
(* SpecForeign: loads of a store file that other programs replace, remove  *)
(* or make unreadable, with the cache enabled or disabled.                 *)
(***************************************************************************)
ForeignTexts == {JsonStringify(StoreA), JsonStringify(<<>>), Truncated, NotAnObject, Unreadable}

FileWrittenAny == \E raw \in ForeignTexts : FileWritten(raw)

NextForeign ==
  \/ LoadCall
  \/ LoadStat
  \/ LoadRead
  \/ LoadRestat
  \/ FileWrittenAny
  \/ DirRemoved
  \/ Tick

SpecForeign == InitCache /\ [][NextForeign]_vars

(***************************************************************************)
(* SpecAgent: `agent` requests against a store file that holds an entry of *)
(* the main session, with the thread pool and the agentCommand runs.       *)
(***************************************************************************)
AgentParams ==
  { [valid |-> FALSE, idempotencyKey |-> "i1", sendPolicy |-> "allow"],
    [valid |-> TRUE, idempotencyKey |-> "i1", sendPolicy |-> "allow"],
    [valid |-> TRUE, idempotencyKey |-> "i1", sendPolicy |-> "allow",
     sessionKey |-> "main"],
    [valid |-> TRUE, idempotencyKey |-> "i2", sendPolicy |-> "allow",
     sessionKey |-> "other", label |-> "L"],
    [valid |-> TRUE, idempotencyKey |-> "i2", sendPolicy |-> "deny",
     sessionKey |-> "main"] }

AgentCallAny == \E r \in RequestIds, p \in AgentParams : AgentCall(r, p)
AgentCommandSettledAny ==
  \E i \in 1..Len(agentCommands), ok \in BOOLEAN : AgentCommandSettled(i, ok)

InitAgent ==
  /\ QueueInit(Channels)
  /\ StoreInit(CacheTtlMs, File(JsonStringify(StoreB), 1))
  /\ AgentInit
  /\ BridgeInit
  /\ SessionsInit

NextAgent ==
  \/ AgentCallAny
  \/ LoadStat
  \/ LoadRead
  \/ LoadRestat
  \/ FsAny
  \/ SaveResumeAny
  \/ SaveReturnAny
  \/ AgentCommandSettledAny

SpecAgent == InitAgent /\ [][NextAgent]_vars

(***************************************************************************)
(* SpecAbort: chat.send and chat.abort requests of the bridge against the  *)
(* store, the thread pool and the agentCommand runs, next to a follow-up   *)
(* queue that takes items.                                                 *)
(***************************************************************************)
ChatSendParams ==
  { [valid |-> FALSE, sessionKey |-> "main", idempotencyKey |-> "i1"],
    [valid |-> TRUE, sessionKey |-> "main", idempotencyKey |-> "i1"],
    [valid |-> TRUE, sessionKey |-> "other", idempotencyKey |-> "i2"] }

ChatAbortParams ==
  { [valid |-> FALSE, sessionKey |-> "main", runId |-> "i1"],
    [valid |-> TRUE, sessionKey |-> "main", runId |-> "i1"],
    [valid |-> TRUE, sessionKey |-> "other", runId |-> "i1"],
    [valid |-> TRUE, sessionKey |-> "other", runId |-> "i2"] }

AbortTriggers == { Trigger("A", "p1", TelegramA) }
AbortSettings == Settings({"followup"}, {0}, {3}, {"summarize"})

ChatSendAny == \E c \in ChatIds, p \in ChatSendParams : ChatSendCall(c, p)
ChatDeltaAny == \E p \in ChatSendParams : ChatDelta(p.idempotencyKey)
ChatAbortAny == \E p \in ChatAbortParams : ChatAbort(p)

NextAbort ==
  \/ EnqueueAny(AbortTriggers, AbortSettings, {"none"})
  \/ ChatSendAny
  \/ LoadStat
  \/ LoadRead
  \/ LoadRestat
  \/ FsAny
  \/ SaveResumeAny
  \/ SaveReturnAny
  \/ AgentCommandSettledAny
  \/ ChatDeltaAny
  \/ ChatAbortAny

SpecAbort == InitAgent /\ [][NextAbort]_vars

(***************************************************************************)
(* SpecChat: chat.send requests of the bridge against the store, the       *)
(* thread pool and the agentCommand runs.                                  *)
(***************************************************************************)
NextChat ==
  \/ ChatSendAny
  \/ LoadStat
  \/ LoadRead
  \/ LoadRestat
  \/ FsAny
  \/ SaveResumeAny
  \/ SaveReturnAny
  \/ AgentCommandSettledAny

SpecChat == InitAgent /\ [][NextChat]_vars

(***************************************************************************)
(* SpecRetry: `agent` and chat.send requests that repeat idempotency keys, *)
(* a chat.send retry also under another session key.  The clients send a   *)
(* request only when no save of the store is under way.                    *)
(***************************************************************************)
RetryAgentParams ==
  { [valid |-> TRUE, idempotencyKey |-> "i1", sendPolicy |-> "allow"],
    [valid |-> TRUE, idempotencyKey |-> "i1", sendPolicy |-> "allow",
     sessionKey |-> "main"] }

RetryChatParams ==
  { [valid |-> TRUE, sessionKey |-> "main", idempotencyKey |-> "i1"],
    [valid |-> TRUE, sessionKey |-> "other", idempotencyKey |-> "i1"] }

AgentRetryAny ==
  /\ savers = <<>>
  /\ \E r \in RequestIds, p \in RetryAgentParams : AgentCall(r, p)

ChatRetryAny ==
  /\ savers = <<>>
  /\ \E c \in ChatIds, p \in RetryChatParams : ChatSendCall(c, p)

NextRetry ==
  \/ AgentRetryAny
  \/ ChatRetryAny
  \/ LoadStat
  \/ LoadRead
  \/ LoadRestat
  \/ FsAny
  \/ SaveResumeAny
  \/ SaveReturnAny
  \/ AgentCommandSettledAny

SpecRetry == InitAgent /\ [][NextRetry]_vars

(***************************************************************************)
(* Helpers of the properties.                                              *)
(***************************************************************************)
RECURSIVE CalledIds(_)
CalledIds(history) ==
  IF history = <<>> THEN <<>>
  ELSE IdsOf(Head(history).items) \o CalledIds(Tail(history))

QueuedIds(key) ==
  IF key \in DOMAIN FOLLOWUP_QUEUES THEN IdsOf(FOLLOWUP_QUEUES[key].items) ELSE <<>>

NotEvicted(id) == id \notin evicted

LoopsOf(key) == {i \in 1..Len(drains) : drains[i].key = key}

\* A step that issues a runFollowup call (the history is not yet full).
CallIssued == Len(calls') = Len(calls) + 1

\* The call issued by a CallIssued step.
NewCall == calls'[Len(calls')]

\* A step in which the loop of key resumes from its debounce wait.
BodyRan(key) ==
  /\ drains' # drains
  /\ \E i \in LoopsOf(key) : drains[i].pc \in {"ready", "wait"}

\* A step that is an enqueueFollowupRun call for key.
EnqueueCalled(key) == nEnq' = nEnq + 1 /\ lastOp'.key = key

(***************************************************************************)
(* SpecSession: inbound messages of a direct sender and of two WhatsApp    *)
(* groups run initSessionState against a store file that holds the main    *)
(* session and a session under the legacy key of the first group, while    *)
(* time passes.                                                            *)
(***************************************************************************)
MainEntry == [sessionId |-> "sM", updatedAt |-> 1, lastTo |-> "chat1"]
LegacyEntry == [sessionId |-> "sG", updatedAt |-> 1, lastTo |-> Undefined]

SessionStoreFile ==
  [k \in {"agent:main:main", "group:1@g.us"} |->
     IF k = "group:1@g.us" THEN LegacyEntry ELSE MainEntry]

\* The instants the clock shows: just after the entries of the file were
\* updated, and at and just past the end of the idle windows of 1 and of
\* DEFAULT_IDLE_MINUTES minutes.
Instants ==
  { 1 + m * 60000 + b : m \in {0, 1, DEFAULT_IDLE_MINUTES}, b \in {0, 1} } \ {1}

\* Time passes: the clock shows a later instant, and every loadedAt and
\* lastEnqueuedAt is that much further back.
TimePasses(d) ==
  /\ d > 0
  /\ wallClock' = wallClock + d
  /\ FOLLOWUP_QUEUES' =
       [k \in DOMAIN FOLLOWUP_QUEUES |->
          [FOLLOWUP_QUEUES[k] EXCEPT !.since = Min(@ + d, MaxSince)]]
  /\ SESSION_STORE_CACHE' =
       [q \in DOMAIN SESSION_STORE_CACHE |->
          [SESSION_STORE_CACHE[q] EXCEPT !.age = Min(@ + d, ttlMs + 1)]]
  /\ UNCHANGED <<drains, calls, accepted, evicted, nEnq, lastOp, switched, routable, enqueued,
                 overflow, errors, ttlMs, disk, fsClock, loader, savers, nSaves, settled,
                 lastLoad, agentVars, bridgeVars, sessionOps>>

\* initSessionState({ctx, cfg, commandAuthorized}) up to loadSessionStore
\* (lines 2085-2105).
InitSessionCall(o, ctx, cfg, commandAuthorized) ==
  /\ loader.pc = "idle"
  /\ o \notin DOMAIN sessionOps
  /\ LoadEnter(requests, chatSends,
               MapSet(sessionOps, o,
                      [kind |-> "init", pc |-> "loading", ctx |-> ctx, cfg |-> cfg,
                       commandAuthorized |-> commandAuthorized]),
               o)
  /\ UNCHANGED <<queueVars, ttlMs, disk, fsClock, nSaves, wallClock>>

DirectCtx(body) == [From |-> <<"+1555">>, Body |-> body]
GroupCtx(jid, body) == [From |-> <<jid>>, Provider |-> "whatsapp", Body |-> body]

SessionContexts ==
  { DirectCtx(b) : b \in {<<"hi">>, <<"/new">>} }
    \cup { GroupCtx(j, <<"hi">>) : j \in GroupJids }

\* cfg.session: nothing configured, or idleMinutes: 0.
SessionConfigs == { <<>>, [idleMinutes |-> 0] }

\* The session operations are told apart by the first name not in use.
FreeOp ==
  IF "o1" \notin DOMAIN sessionOps THEN "o1"
  ELSE IF "o2" \notin DOMAIN sessionOps THEN "o2"
  ELSE "o3"

\* A message arrives when no save is under way.
InitSessionAny ==
  \E ctx \in SessionContexts, cfg \in SessionConfigs, commandAuthorized \in BOOLEAN :
    /\ FreeOp \in {"o1", "o2"}
    /\ savers = <<>>
    /\ InitSessionCall(FreeOp, ctx, cfg, commandAuthorized)

TimePassesAny == \E t \in Instants : TimePasses(t - wallClock)

InitSessions ==
  /\ QueueInit(Channels)
  /\ StoreInit(CacheTtlMs, File(JsonStringify(SessionStoreFile), 1))
  /\ AgentInit
  /\ BridgeInit
  /\ SessionsInit

NextSession ==
  \/ InitSessionAny
  \/ LoadStat
  \/ LoadRead
  \/ LoadRestat
  \/ FsAny
  \/ SaveResumeAny
  \/ SaveReturnAny
  \/ TimePassesAny

SpecSession == InitSessions /\ [][NextSession]_vars

(***************************************************************************)
(* SpecHeartbeat: heartbeats to a direct recipient, one at a time, against *)
(* the store file of SpecSession, while time passes.                       *)
(***************************************************************************)
\* runWebHeartbeatOnce(opts) up to its first loadSessionStore (lines 298-331):
\* the one that forces the session id or else the one of getSessionSnapshot.
\* The field before is history: the entry of the key in the store file.
HeartbeatStarted(opts, cfg, sessionKey) ==
  [kind |-> "heartbeat",
   pc |-> IF Has(opts, "sessionId") THEN "override" ELSE "snapshot",
   opts |-> opts, cfg |-> cfg, sessionKey |-> sessionKey,
   before |-> EntryOf(DiskStore(disk), sessionKey)]

HeartbeatCall(o, opts, cfg) ==
  /\ loader.pc = "idle"
  /\ o \notin DOMAIN sessionOps
  /\ LoadEnter(requests, chatSends,
               MapSet(sessionOps, o, HeartbeatStarted(opts, cfg, HeartbeatKey(opts, cfg))),
               o)
  /\ UNCHANGED <<queueVars, ttlMs, disk, fsClock, nSaves, wallClock>>

\* The reply resolver the heartbeat awaits (line 389) runs: the reply flow
\* initializes the session, another resolver leaves the store alone.
HeartbeatResolve(o) ==
  /\ loader.pc = "idle"
  /\ o \in DOMAIN sessionOps
  /\ sessionOps[o].kind = "heartbeat"
  /\ sessionOps[o].pc = "resolving"
  /\ IF sessionOps[o].opts.replyFlow
       THEN LoadEnter(requests, chatSends, [sessionOps EXCEPT ![o].pc = "replyInit"], o)
       ELSE /\ sessionOps' = [sessionOps EXCEPT ![o].pc = "resolved"]
            /\ UNCHANGED <<agentVars, bridgeVars, SESSION_STORE_CACHE, loader, savers,
                           settled, lastLoad>>
  /\ UNCHANGED <<queueVars, ttlMs, disk, fsClock, nSaves, wallClock>>

\* The reply resolver settles with the reply (lines 398-470): an empty reply
\* and a delivered alert end the heartbeat; on the bare acknowledgement the
\* store is loaded to restore updatedAt.
HeartbeatReply(o) ==
  /\ loader.pc = "idle"
  /\ o \in DOMAIN sessionOps
  /\ sessionOps[o].kind = "heartbeat"
  /\ sessionOps[o].pc = "resolved"
  /\ IF sessionOps[o].opts.reply = "ack"
       THEN LoadEnter(requests, chatSends, [sessionOps EXCEPT ![o].pc = "restore"], o)
       ELSE /\ sessionOps' = [sessionOps EXCEPT ![o] = Finished(sessionOps[o])]
            /\ UNCHANGED <<agentVars, bridgeVars, SESSION_STORE_CACHE, loader, savers,
                           settled, lastLoad>>
  /\ UNCHANGED <<queueVars, ttlMs, disk, fsClock, nSaves, wallClock>>

HeartbeatOpts ==
  { [to |-> <<"+1555">>, replyFlow |-> f, reply |-> r] :
      f \in BOOLEAN, r \in {"empty", "ack", "alert"} }
    \cup { [to |-> <<"+1555">>, replyFlow |-> f, reply |-> r, sessionId |-> "sX"] :
             f \in BOOLEAN, r \in {"empty", "ack", "alert"} }

\* No session operation is in flight.
OpsEnded == \A o \in DOMAIN sessionOps : sessionOps[o].pc \in {"done", "failed"}

\* A heartbeat starts when the previous one has ended.
HeartbeatAny ==
  \E opts \in HeartbeatOpts :
    /\ FreeOp \in {"o1", "o2"}
    /\ OpsEnded
    /\ HeartbeatCall(FreeOp, opts, <<>>)

HeartbeatResolveAny == \E o \in OpIds : HeartbeatResolve(o)
HeartbeatReplyAny == \E o \in OpIds : HeartbeatReply(o)

NextHeartbeat ==
  \/ HeartbeatAny
  \/ HeartbeatResolveAny
  \/ HeartbeatReplyAny
  \/ LoadStart
  \/ LoadStat
  \/ LoadRead
  \/ LoadRestat
  \/ FsAny
  \/ SaveResumeAny
  \/ SaveReturnAny
  \/ TimePassesAny

SpecHeartbeat == InitSessions /\ [][NextHeartbeat]_vars

(***************************************************************************)
(* SpecPersist: an `agent` submit, a chat.send submit, updateLastRoute and *)
(* sessions.reset calls and heartbeats, on the main session and on other   *)
(* keys, with at most two saves of the store under way at a time.          *)
(***************************************************************************)
\* updateLastRoute(params) up to loadSessionStore (sessions.ts lines 479-487).
RouteCall(o, params) ==
  /\ loader.pc = "idle"
  /\ o \notin DOMAIN sessionOps
  /\ LoadEnter(requests, chatSends,
               MapSet(sessionOps, o, [kind |-> "route", pc |-> "loading", params |-> params]),
               o)
  /\ UNCHANGED <<queueVars, ttlMs, disk, fsClock, nSaves, wallClock>>

\* sessions.reset (server-bridge.ts lines 397-422): validation, the key, and
\* loadSessionEntry.
ResetCall(o, params) ==
  /\ loader.pc = "idle"
  /\ o \notin DOMAIN sessionOps
  /\ LET op == [kind |-> "reset", pc |-> "loading", params |-> params]
     IN  IF ~params.valid \/ params.key = ""
           THEN /\ sessionOps' = MapSet(sessionOps, o, [op EXCEPT !.pc = "done"])
                /\ UNCHANGED <<agentVars, bridgeVars, SESSION_STORE_CACHE, loader, savers,
                               settled, lastLoad>>
           ELSE LoadEnter(requests, chatSends, MapSet(sessionOps, o, op), o)
  /\ UNCHANGED <<queueVars, ttlMs, disk, fsClock, nSaves, wallClock>>

RouteParams ==
  { [sessionKey |-> "agent:main:slack:channel:c1", provider |-> "slack", to |-> "c1"] }

ResetParams == { [valid |-> TRUE, key |-> "other"], [valid |-> FALSE, key |-> "other"] }

PersistAgentParams ==
  { [valid |-> TRUE, idempotencyKey |-> "i1", sendPolicy |-> "allow",
     sessionKey |-> "main"] }

PersistChatParams ==
  { [valid |-> TRUE, idempotencyKey |-> "i2", sessionKey |-> "agent:main:main"] }

PersistHeartbeatOpts ==
  { [to |-> <<"+1555">>, replyFlow |-> FALSE, reply |-> "ack", sessionId |-> "sX"] }

\* The number of operations a behaviour of SpecPersist makes.
MaxPersistOps == 3

\* A caller starts an operation when at most one other, a save or a
\* heartbeat, is under way; two session operations are made.
Uncrowded ==
  /\ Cardinality(DOMAIN savers
                   \cup {o \in DOMAIN sessionOps :
                           sessionOps[o].pc \notin {"done", "failed"}})
       <= 1
  /\ Cardinality(DOMAIN requests) + Cardinality(DOMAIN chatSends)
       + Cardinality(DOMAIN sessionOps) < MaxPersistOps
OpToSpare == FreeOp \in {"o1", "o2"}

PersistAgentAny == \E p \in PersistAgentParams : Uncrowded /\ AgentCall("r1", p)
PersistChatAny == \E p \in PersistChatParams : Uncrowded /\ ChatSendCall("c1", p)
RouteAny == \E p \in RouteParams : Uncrowded /\ OpToSpare /\ RouteCall(FreeOp, p)
ResetAny == \E p \in ResetParams : Uncrowded /\ OpToSpare /\ ResetCall(FreeOp, p)
PersistHeartbeatAny ==
  \E opts \in PersistHeartbeatOpts :
    Uncrowded /\ OpToSpare /\ HeartbeatCall(FreeOp, opts, <<>>)

NextPersist ==
  \/ PersistAgentAny
  \/ PersistChatAny
  \/ RouteAny
  \/ ResetAny
  \/ PersistHeartbeatAny
  \/ HeartbeatResolveAny
  \/ HeartbeatReplyAny
  \/ LoadStart
  \/ LoadStat
  \/ LoadRead
  \/ LoadRestat
  \/ FsAny
  \/ SaveResumeAny
  \/ SaveReturnAny

SpecPersist == InitSessions /\ [][NextPersist]_vars

(***************************************************************************)
(* SpecResolve: resolveSessionKey is applied to two inbound contexts, of   *)
(* direct senders and of groups and channels addressed in every form the   *)
(* function tells apart, with and without a provider hint and a chat type, *)
(* under both scopes and several configured main keys.                     *)
(***************************************************************************)
\* provider, id and chatType of the resolution resolveGroupSessionKey
\* returns for a group address (lines 364-391).
GroupIdentity(raw, parsed, resolvedProvider) ==
  IF resolvedProvider = ""
    THEN [provider |-> "", id |-> raw, chatType |-> "group"]
  ELSE [provider |-> resolvedProvider,
        id |-> IF parsed.id # <<>> THEN parsed.id ELSE raw,
        chatType |-> IF parsed.kind = "channel" THEN "room" ELSE "group"]

ResolvedProvider(parsed, providerHint) ==
  IF parsed.provider # "" THEN parsed.provider ELSE providerHint

GroupIdentityOf(ctx) ==
  GroupIdentity(RawAddress(ctx.From),
                ParsedAddress(ctx.From, RawAddress(ctx.From)),
                ResolvedProvider(ParsedAddress(ctx.From, RawAddress(ctx.From)),
                                 IF Has(ctx, "Provider") THEN ctx.Provider ELSE ""))

\* A caller applies resolveSessionKey(scope, ctx, mainKey) and keeps the key.
ResolveKeyCall(o, scope, ctx, mainKey) ==
  /\ o \notin DOMAIN sessionOps
  /\ sessionOps' =
       MapSet(sessionOps, o,
              [kind |-> "resolve", pc |-> "done", scope |-> scope, ctx |-> ctx,
               mainKey |-> mainKey,
               result |-> resolveSessionKey(scope, ctx, mainKey)])
  /\ UNCHANGED <<queueVars, storeVars, agentVars, bridgeVars, wallClock>>

SenderAddresses ==
  { <<"+1555">>, <<"+1666">>, <<"1@g.us">>, <<"2@g.us">>, <<"group", "1@g.us">>,
    <<"slack", "channel", "c1">>, <<"slack", "group", "c1">>,
    <<"discord", "channel", "c1">>, <<"discord", "c1">>,
    <<"group", "slack", "channel", "c1">>, <<"channel", "c1">> }

WithProvider(ctx, provider) ==
  IF provider = "" THEN ctx ELSE [Provider |-> provider] @@ ctx

WithChatType(ctx, chatType) ==
  IF chatType = "" THEN ctx ELSE [ChatType |-> chatType] @@ ctx

ResolveContexts ==
  { WithChatType(WithProvider([From |-> from], provider), chatType) :
      from \in SenderAddresses, provider \in {"", "telegram"},
      chatType \in {"", "group"} }
    \cup { [From |-> <<"+1555">>, SessionKey |-> "custom"] }

\* session.mainKey: not configured, the name of a bucket, and a name of the
\* form of a channel's key.
MainKeys == { "", "work", "slack:channel:c1" }

ResolveKeyAny ==
  \E scope \in {"per-sender", "global"}, ctx \in ResolveContexts, mainKey \in MainKeys :
    /\ FreeOp \in {"o1", "o2"}
    /\ ResolveKeyCall(FreeOp, scope, ctx, mainKey)

NextResolve == ResolveKeyAny

SpecResolve == InitSessions /\ [][NextResolve]_vars

(***************************************************************************)
(* SpecSummary: up to four enqueues of two messages on one key in followup *)
(* mode with debounceMs = 0 and cap 1, under the drop policies summarize   *)
(* and new, against the drain loop: a full queue evicts into the summary   *)
(* under one policy and refuses under the other.                           *)
(***************************************************************************)
MaxSummaryEnqueues == 4

SummaryTriggers ==
  { Trigger("A", "p1", [messageId |-> M1] @@ TelegramA),
    Trigger("B", "p2", [messageId |-> M2] @@ TelegramA) }

SummarySettings == Settings({"followup"}, {0}, {1}, {"new", "summarize"})

EnqueueSummaryAny ==
  \E k \in Keys, t \in SummaryTriggers, s \in SummarySettings :
    EnqueueWithin(MaxSummaryEnqueues, k, t, s, "message-id")

NextSummary ==
  \/ EnqueueSummaryAny
  \/ ScheduleAny
  \/ ResolveAny
  \/ ReturnAny

SpecSummary == Init /\ [][NextSummary]_vars

(***************************************************************************)
(* SpecRoute: updateLastRoute calls, at most two and one at a time or      *)
(* overlapping, on a session that has a label and a model, on the main     *)
(* session and on a key the store file does not hold.                      *)
(***************************************************************************)
RouteKey == "agent:main:slack:channel:c1"

\* An entry that sessions.patch gave a label and a model; its updatedAt is
\* ahead of the first reading of the clock (the clock was set back since).
LabelledEntry ==
  [sessionId |-> "sC", updatedAt |-> 3, lastTo |-> "c0", label |-> "ops",
   model |-> "m1", lastProvider |-> "slack"]

RouteStoreFile ==
  [k \in {"agent:main:main", RouteKey} |->
     IF k = RouteKey THEN LabelledEntry ELSE MainEntry]

\* The calls: a recipient, a blank recipient, or none.
RouteCalls ==
  { [sessionKey |-> k, provider |-> p, to |-> t] :
      k \in {RouteKey, "agent:main:main", "agent:main:telegram:group:g1"},
      p \in {"telegram"}, t \in {"c1", ""} }
    \cup { [sessionKey |-> RouteKey, provider |-> "slack"] }

RouteCallAny ==
  \E p \in RouteCalls :
    /\ OpToSpare
    /\ Cardinality(DOMAIN savers) <= 1
    /\ RouteCall(FreeOp, p)

InitRoute ==
  /\ QueueInit(Channels)
  /\ StoreInit(CacheTtlMs, File(JsonStringify(RouteStoreFile), 1))
  /\ AgentInit
  /\ BridgeInit
  /\ SessionsInit

NextRoute ==
  \/ RouteCallAny
  \/ LoadStat
  \/ LoadRead
  \/ LoadRestat
  \/ FsAny
  \/ SaveResumeAny
  \/ SaveReturnAny

SpecRoute == InitRoute /\ [][NextRoute]_vars

(***************************************************************************)
(* SpecAlias: callers load the store of SpecSession, with the cache        *)
(* enabled, and change the mapping they were returned: they set and delete *)
(* keys and assign to a field of an entry, while time passes.  No caller   *)
(* saves, so the store file stays as it is.                                *)
(***************************************************************************)
\* The changes one caller makes.
MaxChanges == 2

\* loadSessionStore(storePath) called by caller o.
LoadStoreCall(o) ==
  /\ loader.pc = "idle"
  /\ o \notin DOMAIN sessionOps
  /\ LoadEnter(requests, chatSends,
               MapSet(sessionOps, o, [kind |-> "load", pc |-> "loading"]), o)
  /\ UNCHANGED <<queueVars, ttlMs, disk, fsClock, nSaves, wallClock>>

Holders(ops) == {p \in DOMAIN ops : ops[p].kind = "load" /\ ops[p].pc = "holding"}

\* The return that parsed the entries caller o was returned: the latest one
\* not served from the cache, up to its own.
ParsedAt(ops, o) ==
  CHOOSE n \in 0..ops[o].nth :
    /\ \E p \in Holders(ops) : ops[p].nth = n /\ ~ops[p].served
    /\ \A p \in Holders(ops) : (ops[p].nth <= ops[o].nth /\ ~ops[p].served) => ops[p].nth <= n

\* The entry caller p has under key is the object caller o has under it.
SameEntry(ops, p, o, key) ==
  \/ p = o
  \/ /\ key \in DOMAIN ops[p].store
     /\ key \notin ops[p].own \cup ops[o].own
     /\ ParsedAt(ops, p) = ParsedAt(ops, o)

\* The entry the cache has under key is the object caller o has under it: the
\* cache entry is the one set by the load that parsed the entries of o.
CachedEntry(cache, ops, o, key) ==
  /\ StorePath \in DOMAIN cache
  /\ key \notin ops[o].own
  /\ \A p \in Holders(ops) : ~ops[p].served => ops[p].nth <= ParsedAt(ops, o)

MayChange(o) ==
  /\ loader.pc = "idle"
  /\ o \in Holders(sessionOps)
  /\ sessionOps[o].changes < MaxChanges

Changed(op, store, own) ==
  [op EXCEPT !.store = store, !.own = own, !.changes = @ + 1]

\* store[key] = entry: the caller adds or replaces a key.
SetKey(o, key, entry) ==
  /\ MayChange(o)
  /\ sessionOps' =
       [sessionOps EXCEPT ![o] = Changed(@, MapSet(@.store, key, entry), @.own \cup {key})]
  /\ UNCHANGED <<queueVars, storeVars, agentVars, bridgeVars, wallClock>>

\* delete store[key].
DeleteKey(o, key) ==
  /\ MayChange(o)
  /\ key \in DOMAIN sessionOps[o].store
  /\ sessionOps' =
       [sessionOps EXCEPT ![o] = Changed(@, MapDelete(@.store, key), @.own \cup {key})]
  /\ UNCHANGED <<queueVars, storeVars, agentVars, bridgeVars, wallClock>>

\* store[key].updatedAt = value, as the restore of runWebHeartbeatOnce does
\* (part_003 line 436): the assignment is to the entry object, and is seen
\* through every mapping that has the object.
AssignUpdatedAt(o, key, value) ==
  /\ MayChange(o)
  /\ key \in DOMAIN sessionOps[o].store
  /\ sessionOps' =
       [p \in DOMAIN sessionOps |->
          IF p = o
            THEN Changed(sessionOps[o],
                         [sessionOps[o].store EXCEPT ![key].updatedAt = value],
                         sessionOps[o].own)
          ELSE IF p \in Holders(sessionOps) /\ SameEntry(sessionOps, p, o, key)
            THEN [sessionOps[p] EXCEPT !.store[key].updatedAt = value]
            ELSE sessionOps[p]]
  /\ SESSION_STORE_CACHE' =
       IF CachedEntry(SESSION_STORE_CACHE, sessionOps, o, key)
         THEN [SESSION_STORE_CACHE EXCEPT ![StorePath].store[key].updatedAt = value]
         ELSE SESSION_STORE_CACHE
  /\ UNCHANGED <<queueVars, ttlMs, disk, fsClock, loader, savers, nSaves, settled,
                 lastLoad, agentVars, bridgeVars, wallClock>>

AliasKeys == {"agent:main:main", "agent:main:slack:channel:c1"}

NewEntry == [sessionId |-> "sN", updatedAt |-> 2, lastTo |-> Undefined]

LoadStoreAny == LoadStoreCall(FreeOp)
SetKeyAny == \E o \in OpIds, k \in AliasKeys : SetKey(o, k, NewEntry)
DeleteKeyAny == \E o \in OpIds, k \in AliasKeys : DeleteKey(o, k)
AssignUpdatedAtAny == \E o \in OpIds, k \in AliasKeys : AssignUpdatedAt(o, k, 0)

\* The clock moves on by less than the TTL of the cache or past it.
AliasTimePasses == \E d \in {1, CacheTtlMs + 1} : wallClock < 4 /\ TimePasses(d)

NextAlias ==
  \/ LoadStoreAny
  \/ LoadStat
  \/ LoadRead
  \/ LoadRestat
  \/ SetKeyAny
  \/ DeleteKeyAny
  \/ AssignUpdatedAtAny
  \/ AliasTimePasses

SpecAlias == InitSessions /\ [][NextAlias]_vars

(***************************************************************************)
(* C1: for one key at most one drain loop exists at any time.  A loop      *)
(* exists exactly while the key's queue has draining = true (so a          *)
(* scheduleFollowupDrain call made then started nothing), and at most one  *)
(* runFollowup call of the key is outstanding.                             *)
(***************************************************************************)
C1_SingleDrainLoop ==
  \A k \in Keys :
    /\ Cardinality(LoopsOf(k)) <= 1
    /\ (LoopsOf(k) # {}) <=> (k \in DOMAIN FOLLOWUP_QUEUES /\ FOLLOWUP_QUEUES[k].draining)
    /\ Cardinality({i \in LoopsOf(k) : drains[i].pc = "running"}) <= 1

\* scheduleFollowupDrain was called while the loop awaited an executor call, with
\* items waiting in the queue.
C1_Witness ==
  /\ lastOp.op = "schedule"
  /\ ~lastOp.result
  /\ lastOp.key \in DOMAIN FOLLOWUP_QUEUES
  /\ FOLLOWUP_QUEUES[lastOp.key].draining
  /\ Len(FOLLOWUP_QUEUES[lastOp.key].items) > 0
  /\ \E i \in LoopsOf(lastOp.key) : drains[i].pc = "running"

(***************************************************************************)
(* C2: with debounceMs = 0 and a mode other than collect, the items passed *)
(* to runFollowup so far, followed by the items still queued, are exactly  *)
(* the items enqueueFollowupRun accepted and the cap did not evict, in the *)
(* order of their enqueues: each is passed once, in order, none is lost.   *)
(***************************************************************************)
C2_ExactlyOnceInOrder ==
  \A k \in Keys :
    Len(calls) < MaxCalls =>
      CalledIds(calls) \o QueuedIds(k) = SelectSeq(accepted, NotEvicted)

\* Three items were accepted, one was evicted by the cap, and the other two have
\* been passed to the executor, which left the key idle.
C2_Witness ==
  /\ Len(accepted) = 3
  /\ Cardinality(evicted) = 1
  /\ Len(CalledIds(calls)) = 2
  /\ FOLLOWUP_QUEUES = <<>>

(***************************************************************************)
(* C9: a runFollowup call is never issued earlier than lastEnqueuedAt +    *)
(* debounceMs of the key's queue.                                          *)
(***************************************************************************)
C9_NoCallBeforeDebounce ==
  [][\A k \in Keys :
       (CallIssued /\ k \in DOMAIN FOLLOWUP_QUEUES)
         => FOLLOWUP_QUEUES[k].since >= FOLLOWUP_QUEUES[k].debounceMs]_vars

(***************************************************************************)
(* C10: with drop policy new, an enqueueFollowupRun call that finds the    *)
(* queue at or above its cap returns false and leaves the list of queued   *)
(* items as it was.                                                        *)
(***************************************************************************)
C10_NewPolicyRejects ==
  [][\A k \in Keys :
       ( /\ EnqueueCalled(k)
         /\ k \in DOMAIN FOLLOWUP_QUEUES
         /\ FOLLOWUP_QUEUES'[k].dropPolicy = "new"
         /\ Len(FOLLOWUP_QUEUES[k].items) >= FOLLOWUP_QUEUES'[k].cap )
       => /\ ~lastOp'.result
          /\ accepted' = accepted
          /\ FOLLOWUP_QUEUES'[k].items = FOLLOWUP_QUEUES[k].items]_vars

\* An enqueue that no dedupe could refuse was refused by a full queue (two items,
\* cap 2) under drop policy new.
C10_Witness ==
  /\ lastOp.op = "enqueue"
  /\ ~lastOp.result
  /\ lastOp.dedupe = "none"
  /\ lastOp.key \in DOMAIN FOLLOWUP_QUEUES
  /\ FOLLOWUP_QUEUES[lastOp.key].dropPolicy = "new"
  /\ FOLLOWUP_QUEUES[lastOp.key].cap = 2
  /\ Len(FOLLOWUP_QUEUES[lastOp.key].items) = 2

(***************************************************************************)
(* C11: with drop policy old, an enqueueFollowupRun call that accepts an   *)
(* item while the queue is at or above its cap removes items from the      *)
(* front, so that the new item is the last of exactly cap items, and       *)
(* leaves the dropped count and the summary lines as they were; and no     *)
(* item the cap removed is ever passed to runFollowup.                     *)
(***************************************************************************)
C11_OldPolicyEvicts ==
  [][\A k \in Keys :
       /\ ( /\ EnqueueCalled(k)
            /\ lastOp'.result
            /\ k \in DOMAIN FOLLOWUP_QUEUES
            /\ FOLLOWUP_QUEUES'[k].dropPolicy = "old"
            /\ Len(FOLLOWUP_QUEUES[k].items) >= FOLLOWUP_QUEUES'[k].cap )
          => LET before == FOLLOWUP_QUEUES[k]
                 after == FOLLOWUP_QUEUES'[k]
                 removed == Len(before.items) - after.cap + 1
             IN  /\ Len(after.items) = after.cap
                 /\ after.items[Len(after.items)].id = nEnq'
                 /\ Take(after.items, after.cap - 1) = Drop(before.items, removed)
                 /\ evicted' = evicted \cup Range(IdsOf(Take(before.items, removed)))
                 /\ after.droppedCount = before.droppedCount
                 /\ after.summaryLines = before.summaryLines
       /\ Range(CalledIds(calls')) \cap evicted' = {}]_vars

\* Two items were queued under cap 2; a third, enqueued with cap 1 and drop policy
\* old, removed both; it was then passed to the executor, and the key went idle
\* with no summary call made.
C11_Witness ==
  /\ accepted = <<1, 2, 3>>
  /\ evicted = {1, 2}
  /\ Len(calls) = 1
  /\ calls[1].kind = "item"
  /\ calls[1].items[1].id = 3
  /\ FOLLOWUP_QUEUES = <<>>

\* The synopsis lines of the items of an overflow log, in eviction order.
SynopsesOf(log) == [i \in 1..Len(log) |-> buildQueueSummaryLine(log[i].item)]

IsSuffix(s, t) == Len(s) <= Len(t) /\ s = Drop(t, Len(t) - Len(s))

\* The smallest cap in force at the evictions of a non-empty overflow log.
SmallestCap(log) ==
  CHOOSE c \in {log[i].cap : i \in 1..Len(log)} : \A i \in 1..Len(log) : c <= log[i].cap

\* A step in which the loop of k passes a summary text to the executor.
SummaryPassed(k) == BodyRan(k) /\ CallIssued /\ NewCall.summary # NoSummary

(***************************************************************************)
(* C12 as claimed: a summary passed to the executor states as its dropped  *)
(* count the number of items evicted under the summarize policy since the  *)
(* previous summary, and has one synopsis line for each of them.           *)
(***************************************************************************)
C12_EveryEvictionInSummary ==
  [][\A k \in Keys :
       SummaryPassed(k)
         => /\ NewCall.summary.count = Len(OverflowOf(overflow, k))
            /\ NewCall.summary.lines = SynopsesOf(OverflowOf(overflow, k))]_vars

(***************************************************************************)
(* C12 amended: a summary passed to the executor states as its dropped     *)
(* count the number of items evicted under the summarize policy since the  *)
(* previous summary; its synopsis lines are those of the most recently     *)
(* evicted of these items, in eviction order, the most recent one          *)
(* included; and there is one line for each evicted item when no more      *)
(* items were evicted than the smallest cap in force at these evictions.   *)
(***************************************************************************)
C12_SummaryCountsEvictions ==
  [][\A k \in Keys :
       SummaryPassed(k)
         => LET log == OverflowOf(overflow, k)
                lines == NewCall.summary.lines
            IN  /\ log # <<>>
                /\ NewCall.summary.count = Len(log)
                /\ lines # <<>>
                /\ IsSuffix(lines, SynopsesOf(log))
                /\ Len(log) <= SmallestCap(log) => lines = SynopsesOf(log)]_vars

\* A call carried only a summary that counts two evicted items and has the line of
\* the second alone: the cap was 1.
C12_Witness ==
  \E i \in 1..Len(calls) :
    /\ calls[i].kind = "summary"
    /\ calls[i].summary.count = 2
    /\ calls[i].summary.lines = <<buildQueueSummaryLine(enqueued[2])>>
    /\ evicted = {1, 2}

\* The run passed to the enqueueFollowupRun call of an EnqueueCalled step.
NewRun == enqueued'[Len(enqueued')]

SameMessageId(a, b) ==
  /\ Has(a, "messageId")
  /\ Has(b, "messageId")
  /\ trim(a.messageId) = trim(b.messageId)

HasMessageId(a) == Has(a, "messageId") /\ trim(a.messageId) # <<>>

\* The step refuses the run and leaves the item list of k as it was.
Refused(k) ==
  /\ ~lastOp'.result
  /\ accepted' = accepted
  /\ FOLLOWUP_QUEUES'[k].items = FOLLOWUP_QUEUES[k].items

PromptQueued(k) ==
  \E i \in 1..Len(FOLLOWUP_QUEUES[k].items) :
    /\ FOLLOWUP_QUEUES[k].items[i].prompt = NewRun.prompt
    /\ hasSameRouting(FOLLOWUP_QUEUES[k].items[i], NewRun)

\* The queue of k holds an item with the trimmed message id and the route of the
\* new run.
MessageIdQueued(k) ==
  \E i \in 1..Len(FOLLOWUP_QUEUES[k].items) :
    /\ SameMessageId(FOLLOWUP_QUEUES[k].items[i], NewRun)
    /\ hasSameRouting(FOLLOWUP_QUEUES[k].items[i], NewRun)

\* The queue is full and its drop policy is new: the run is refused for that.
RefusedByCap(k) ==
  /\ FOLLOWUP_QUEUES'[k].dropPolicy = "new"
  /\ Len(FOLLOWUP_QUEUES[k].items) >= FOLLOWUP_QUEUES'[k].cap

\* In none mode the run is enqueued unless the cap refuses it.
NoneNeverDedupes(k) ==
  (EnqueueCalled(k) /\ lastOp'.dedupe = "none" /\ k \in DOMAIN FOLLOWUP_QUEUES)
    => lastOp'.result \/ RefusedByCap(k)

(***************************************************************************)
(* C14 as claimed: in prompt dedupe mode a run whose prompt and route      *)
(* equal those of a queued item is refused, whether or not the two carry   *)
(* message ids; in none mode no run is refused as a duplicate.             *)
(***************************************************************************)
C14_PromptDedupe ==
  [][\A k \in Keys :
       /\ ( /\ EnqueueCalled(k)
            /\ lastOp'.dedupe = "prompt"
            /\ k \in DOMAIN FOLLOWUP_QUEUES
            /\ PromptQueued(k) )
          => Refused(k)
       /\ NoneNeverDedupes(k)]_vars

(***************************************************************************)
(* C14 amended: in prompt dedupe mode a run that carries no message id, or *)
(* one that is empty once trimmed, is refused when its prompt and route    *)
(* equal those of a queued item, whether or not that item carries a        *)
(* message id; a run that carries a message id is refused exactly when a   *)
(* queued item has its trimmed message id and its route, whatever the      *)
(* prompts; in none mode no run is refused as a duplicate.                 *)
(***************************************************************************)
C14_PromptFallbackDedupe ==
  [][\A k \in Keys :
       /\ ( /\ EnqueueCalled(k)
            /\ lastOp'.dedupe = "prompt"
            /\ k \in DOMAIN FOLLOWUP_QUEUES )
          => /\ (~HasMessageId(NewRun) /\ PromptQueued(k)) => Refused(k)
             /\ (HasMessageId(NewRun) /\ MessageIdQueued(k)) => Refused(k)
             /\ (HasMessageId(NewRun) /\ ~MessageIdQueued(k))
                  => lastOp'.result \/ RefusedByCap(k)
       /\ NoneNeverDedupes(k)]_vars

\* In prompt mode a run without a message id was refused: the one queued item has
\* its prompt and route, and a message id.
C14_Witness ==
  /\ lastOp.op = "enqueue"
  /\ lastOp.dedupe = "prompt"
  /\ ~lastOp.result
  /\ ~Has(enqueued[nEnq], "messageId")
  /\ lastOp.key \in DOMAIN FOLLOWUP_QUEUES
  /\ LET items == FOLLOWUP_QUEUES[lastOp.key].items
     IN  /\ Len(items) = 1
         /\ HasMessageId(items[1])
         /\ items[1].prompt = enqueued[nEnq].prompt
         /\ hasSameRouting(items[1], enqueued[nEnq])

(***************************************************************************)
(* C15: with every runFollowup call returning, once items have been        *)
(* evicted under the summarize policy and a drain of the key is running, a *)
(* summary of them is eventually passed to the executor, whatever enqueues *)
(* and settings follow: the dropped count is not left pending for ever.    *)
(***************************************************************************)
C15_SummaryDelivered ==
  \A k \in Keys :
    []((OverflowOf(overflow, k) # <<>> /\ LoopsOf(k) # {})
         => <>(OverflowOf(overflow, k) = <<>>))

ItemIds == 1..MaxEnqueues

\* No item occurs twice in the calls made, and none that was passed is queued.
PassedOnce(k) ==
  /\ \A i, j \in 1..Len(CalledIds(calls)) :
       CalledIds(calls)[i] = CalledIds(calls)[j] => i = j
  /\ Range(CalledIds(calls)) \cap Range(QueuedIds(k)) = {}

\* An item leaves the queue of k only in a call to the executor or by the cap.
LeavesByCallOrCap(k, id) ==
  ( /\ Len(calls) < MaxCalls
    /\ id \in Range(QueuedIds(k))
    /\ k \notin DOMAIN FOLLOWUP_QUEUES' \/ id \notin Range(IdsOf(FOLLOWUP_QUEUES'[k].items)) )
  => \/ id \in evicted'
     \/ CallIssued /\ id \in Range(IdsOf(NewCall.items))

AsEnqueued(item) == enqueued[item.id]

(***************************************************************************)
(* C17: every queued item is the run that was enqueued, unaltered by later *)
(* enqueues and settings; and a call made for one item alone passes that   *)
(* run: its prompt, its run parameters and its originating route are those *)
(* it had when it was enqueued.                                            *)
(***************************************************************************)
C17_ItemPassedAsEnqueued ==
  /\ \A k \in DOMAIN FOLLOWUP_QUEUES :
       \A i \in 1..Len(FOLLOWUP_QUEUES[k].items) :
         FOLLOWUP_QUEUES[k].items[i] = AsEnqueued(FOLLOWUP_QUEUES[k].items[i])
  /\ \A i \in 1..Len(calls) :
       calls[i].kind = "item"
         => LET item == calls[i].items[1]
            IN  /\ Len(calls[i].items) = 1
                /\ item = AsEnqueued(item)
                /\ calls[i].run = AsEnqueued(item).run
                /\ calls[i].route = RouteOf(AsEnqueued(item))
                /\ calls[i].summary = NoSummary

\* In collect mode the first item was passed alone, with its own run parameters
\* and route, after a second item with other parameters and another route had
\* been enqueued with another debounce window.
C17_Witness ==
  /\ Len(calls) = 1
  /\ calls[1].kind = "item"
  /\ calls[1].items[1].id = 1
  /\ calls[1].run = "p1"
  /\ calls[1].route = TelegramA
  /\ "k1" \in DOMAIN FOLLOWUP_QUEUES
  /\ FOLLOWUP_QUEUES["k1"].mode = "collect"
  /\ FOLLOWUP_QUEUES["k1"].lastRun = "p2"
  /\ FOLLOWUP_QUEUES["k1"].debounceMs = 2
  /\ IdsOf(FOLLOWUP_QUEUES["k1"].items) = <<2>>
  /\ RouteOf(FOLLOWUP_QUEUES["k1"].items[1]) = SlackB

\* The QueueState of a key (none when the registry has no entry for it) and the
\* drain loops of the key.
QueueStateOf(queues, k) == IF k \in DOMAIN queues THEN <<queues[k]>> ELSE <<>>

LoopsFor(ds, k) == SelectSeq(ds, LAMBDA loop : loop.key = k)

\* The step is an operation on the queue of k: an enqueueFollowupRun or a
\* scheduleFollowupDrain call for k, or a step of the drain loop of k.
OperatesOn(k) ==
  \/ EnqueueCalled(k)
  \/ /\ nEnq' = nEnq
     /\ lastOp' # lastOp
     /\ lastOp'.key = k
  \/ /\ nEnq' = nEnq
     /\ lastOp' = lastOp
     /\ LoopsFor(drains', k) # LoopsFor(drains, k)

(***************************************************************************)
(* C18: an operation on the queue of one key (enqueueFollowupRun,          *)
(* scheduleFollowupDrain, a step of its drain loop, the deletion of its    *)
(* QueueState included) leaves the QueueState and the drain loop of every  *)
(* other key as they were, its presence in the registry included.  That    *)
(* the executor calls of two keys can be outstanding together is the       *)
(* state C18_Witness describes.                                            *)
(***************************************************************************)
C18_KeysIndependent ==
  [][\A k, other \in TwoKeys :
       (OperatesOn(k) /\ other # k)
         => /\ QueueStateOf(FOLLOWUP_QUEUES', other) = QueueStateOf(FOLLOWUP_QUEUES, other)
            /\ LoopsFor(drains', other) = LoopsFor(drains, other)
            /\ OverflowOf(overflow', other) = OverflowOf(overflow, other)]_vars

\* The drain of k2 dequeued its item and called the executor while the call the
\* drain of k1 made is outstanding.
C18_Witness ==
  /\ Len(calls) = 2
  /\ IdsOf(calls[1].items) = <<1>>
  /\ IdsOf(calls[2].items) = <<2>>
  /\ Len(drains) = 2
  /\ drains[1].key = "k1" /\ drains[1].pc = "running"
  /\ drains[2].key = "k2" /\ drains[2].pc = "running"
  /\ FOLLOWUP_QUEUES["k1"].items = <<>>
  /\ FOLLOWUP_QUEUES["k2"].items = <<>>

\* The entries of map m that belong to runs other than runId.
OtherRuns(m, runId) == [k \in DOMAIN m \ {runId} |-> m[k]]

\* The chat-run registrations of runs other than runId, by session id.
OtherRegistrations(registry, runId) ==
  LET Other(entry) == entry.clientRunId # runId
      others == [sid \in DOMAIN registry |-> SelectSeq(registry[sid], Other)]
  IN  [sid \in {x \in DOMAIN registry : others[x] # <<>>} |-> others[sid]]

BridgeMapsUnchanged ==
  UNCHANGED <<chatAbortControllers, chatRunBuffers, chatDeltaSentAt, chatRunSessions,
              abortedControllers, chatEvents>>

(***************************************************************************)
(* C19: a chat.abort request for a runId and sessionKey whose registered   *)
(* controller carries that sessionKey aborts that controller and removes   *)
(* the runId's entries from the abort controllers, the run buffers and the *)
(* delta timestamps, and a registration of the run from the chat-run       *)
(* registry, and it is answered aborted = true; the entries of every other *)
(* run, the follow-up queues, the store and the dedupe map are unchanged.  *)
(* A request whose sessionKey differs from the controller's is answered    *)
(* with an error and one for a runId without a controller with             *)
(* aborted = false, and neither changes any state.                         *)
(***************************************************************************)
C19_AbortRemovesOnlyItsRun ==
  [][ lastAbort' # lastAbort =>
        LET p == lastAbort'.params
            res == lastAbort'.response
        IN  /\ UNCHANGED <<queueVars, storeVars, agentVars, chatSends>>
            /\ p.valid =>
                 IF p.runId \notin DOMAIN chatAbortControllers
                   THEN /\ res.ok /\ ~res.aborted
                        /\ BridgeMapsUnchanged
                 ELSE IF chatAbortControllers[p.runId].sessionKey # p.sessionKey
                   THEN /\ ~res.ok /\ ~res.aborted /\ res.error = "INVALID_REQUEST"
                        /\ BridgeMapsUnchanged
                 ELSE /\ res.ok /\ res.aborted
                      /\ abortedControllers' =
                           abortedControllers \cup {chatAbortControllers[p.runId].controller}
                      /\ p.runId \notin DOMAIN chatAbortControllers'
                      /\ p.runId \notin DOMAIN chatRunBuffers'
                      /\ p.runId \notin DOMAIN chatDeltaSentAt'
                      /\ OtherRuns(chatAbortControllers', p.runId)
                           = OtherRuns(chatAbortControllers, p.runId)
                      /\ OtherRuns(chatRunBuffers', p.runId)
                           = OtherRuns(chatRunBuffers, p.runId)
                      /\ OtherRuns(chatDeltaSentAt', p.runId)
                           = OtherRuns(chatDeltaSentAt, p.runId)
                      /\ OtherRegistrations(chatRunSessions', p.runId)
                           = OtherRegistrations(chatRunSessions, p.runId)
                      /\ \/ chatRunSessions' = chatRunSessions
                         \/ /\ p.runId \in DOMAIN chatRunSessions
                            /\ Len(IF p.runId \in DOMAIN chatRunSessions'
                                     THEN chatRunSessions'[p.runId] ELSE <<>>)
                                 = Len(chatRunSessions[p.runId]) - 1 ]_vars

\* A run was aborted while another run holds a controller, a buffer, a delta
\* timestamp and a registration and a follow-up item is queued; the aborted run
\* has no entry left.
C19_Witness ==
  /\ lastAbort.n > 0
  /\ lastAbort.response.aborted
  /\ lastAbort.params.runId \notin
       DOMAIN chatAbortControllers \cup DOMAIN chatRunBuffers \cup DOMAIN chatRunSessions
  /\ \E other \in DOMAIN chatAbortControllers :
       /\ other # lastAbort.params.runId
       /\ other \in DOMAIN chatRunBuffers
       /\ other \in DOMAIN chatDeltaSentAt
       /\ other \in DOMAIN chatRunSessions
  /\ \E k \in DOMAIN FOLLOWUP_QUEUES : FOLLOWUP_QUEUES[k].items # <<>>

\* Both refusals of chat.abort have happened: a request with another sessionKey
\* than the controller's, and a request for a runId without a controller.
C19_WitnessRefused ==
  /\ lastAbort.n = 2
  /\ lastAbort.params.valid
  /\ ~lastAbort.response.ok
  /\ chatEvents = <<>>
  /\ chatAbortControllers # <<>>

\* A run of the `agent` method for idempotency key idem has completed.
RunCompleted(idem) ==
  \E i \in 1..Len(agentCommands) :
    /\ agentCommands[i].request \in RequestIds
    /\ agentCommands[i].runId = idem
    /\ agentCommands[i].state = "done"

IsFinalOutcome(entry) == entry.status \in {"ok", "error"}

(***************************************************************************)
(* C20: once a run of the `agent` method has completed, the dedupe entry   *)
(* of its idempotency key holds the final outcome (ok or error), and a     *)
(* valid request that arrives later with the same key is answered with     *)
(* that entry, marked cached, and agentCommand is not invoked for it.      *)
(***************************************************************************)
C20_DedupeHoldsFinalOutcome ==
  /\ [](\A i \in 1..Len(agentCommands) :
          (agentCommands[i].request \in RequestIds /\ agentCommands[i].state = "done")
            => /\ DedupeKey(agentCommands[i].runId) \in DOMAIN dedupe
               /\ IsFinalOutcome(dedupe[DedupeKey(agentCommands[i].runId)]))
  /\ [][ \A r \in RequestIds :
           ( /\ r \notin DOMAIN requests
             /\ r \in DOMAIN requests'
             /\ requests'[r].params.valid
             /\ RunCompleted(requests'[r].params.idempotencyKey) )
           => /\ agentCommands' = agentCommands
              /\ requests'[r].pc = "done"
              /\ responses'[r] =
                   <<[dedupe[DedupeKey(requests'[r].params.idempotencyKey)]
                        EXCEPT !.cached = TRUE]>>
              /\ IsFinalOutcome(responses'[r][1]) ]_vars

\* agentCommand was invoked for chat.send request c.
ChatStarted(c) == \E i \in 1..Len(agentCommands) : agentCommands[i].request = c

(***************************************************************************)
(* C21: a chat.send request that arrives while an agentCommand invoked by  *)
(* an earlier chat.send request with the same idempotencyKey is still      *)
(* running does not invoke agentCommand.                                   *)
(***************************************************************************)
C21_NoSecondChatRun ==
  \A c \in DOMAIN chatSends : chatSends[c].busy => ~ChatStarted(c)

\* What a request served from the dedupe map must leave alone: the store file
\* and the saves under way, the dedupe map, the registrations of run contexts
\* and chat runs, the abort controllers, and the agentCommand invocations.
DedupeHitFrame ==
  UNCHANGED <<disk, savers, dedupe, registered, agentCommands, chatAbortControllers,
              chatRunSessions, chatRunBuffers, chatDeltaSentAt>>

\* Valid `agent` request r arrives in this step and its key has a dedupe entry.
AgentDedupeHit(r) ==
  /\ r \notin DOMAIN requests
  /\ r \in DOMAIN requests'
  /\ requests'[r].params.valid
  /\ DedupeKey(requests'[r].params.idempotencyKey) \in DOMAIN dedupe

\* chat.send request c reaches its dedupe lookup in this step (the handler runs
\* to the lookup without an await) and its key has a dedupe entry.
ChatDedupeHit(c) ==
  /\ c \notin DOMAIN chatSends \/ chatSends[c].pc = "loading"
  /\ c \in DOMAIN chatSends'
  /\ chatSends'[c].pc # "loading"
  /\ chatSends'[c].params.valid
  /\ ChatDedupeKey(chatSends'[c].params.idempotencyKey) \in DOMAIN dedupe

(***************************************************************************)
(* C22: a valid `agent` or chat.send request whose idempotency key has a   *)
(* dedupe entry when the handler looks it up is answered with the cached   *)
(* outcome and changes nothing: the store file is not written and no save  *)
(* is started, no run context, chat run or abort controller is registered, *)
(* the dedupe map is unchanged and agentCommand is not invoked.            *)
(***************************************************************************)
C22_DedupeHitChangesNothing ==
  [][ /\ \A r \in RequestIds :
           AgentDedupeHit(r)
             => /\ DedupeHitFrame
                /\ responses'[r] =
                     <<[dedupe[DedupeKey(requests'[r].params.idempotencyKey)]
                          EXCEPT !.cached = TRUE]>>
      /\ \A c \in ChatIds :
           ChatDedupeHit(c)
             => /\ DedupeHitFrame
                /\ chatSends'[c].pc = "done"
                /\ chatSends'[c].result = "cached" ]_vars

\* The conditions under which the cached snapshot may be returned, on the state
\* a loadSessionStore call finds.
CachedSnapshotUsable ==
  /\ ttlMs > 0
  /\ StorePath \in DOMAIN SESSION_STORE_CACHE
  /\ SESSION_STORE_CACHE[StorePath].age <= ttlMs
  /\ SESSION_STORE_CACHE[StorePath].mtimeMs
       = (IF disk.file.exists THEN disk.file.mtimeMs ELSE NoMtime)

\* A loadSessionStore call of the environment returns the cached snapshot.
LoadFromCacheStep ==
  /\ loader.pc = "idle"
  /\ lastLoad' # lastLoad
  /\ lastLoad'.valid
  /\ lastLoad'.read = "cache"

\* A loadSessionStore call goes on to read the file.
LoadFromDiskStep == loader.pc = "idle" /\ loader'.pc = "stat"

\* A loadSessionStore call that read the file returns.
LoadedFromDiskStep == loader.pc \in {"read", "restat"} /\ loader'.pc = "idle"

(***************************************************************************)
(* C23: loadSessionStore returns the cached snapshot only when caching is  *)
(* enabled, the age of the cache entry is at most the TTL and the file's   *)
(* modification time equals the one recorded in the entry; in every other  *)
(* case it reads the file; an entry within its TTL whose modification time *)
(* differs is deleted before the read, and when a call that read the file  *)
(* returns, the cache holds what that call read or, with caching disabled, *)
(* nothing.                                                                *)
(***************************************************************************)
C23_CacheOnlyWhenFresh ==
  [][ /\ LoadFromCacheStep
           => /\ CachedSnapshotUsable
              /\ lastLoad'.store = SESSION_STORE_CACHE[StorePath].store
              /\ UNCHANGED SESSION_STORE_CACHE
      /\ LoadFromDiskStep
           => /\ ~CachedSnapshotUsable
              /\ (StorePath \in DOMAIN SESSION_STORE_CACHE
                    /\ SESSION_STORE_CACHE[StorePath].age <= ttlMs)
                   => StorePath \notin DOMAIN SESSION_STORE_CACHE'
      /\ LoadedFromDiskStep
           => /\ lastLoad'.read \in {"missing", "partial", "complete"}
              /\ IF ttlMs > 0
                   THEN /\ StorePath \in DOMAIN SESSION_STORE_CACHE'
                        /\ SESSION_STORE_CACHE'[StorePath].store = lastLoad'.store
                        /\ SESSION_STORE_CACHE'[StorePath].age = 0
                   ELSE SESSION_STORE_CACHE' = <<>> ]_vars

\* A load returned the cached snapshot after the entry of an earlier load had
\* expired and been replaced.
C23_Witness ==
  /\ lastLoad.valid
  /\ lastLoad.read = "cache"
  /\ lastLoad.store # <<>>
  /\ StorePath \in DOMAIN SESSION_STORE_CACHE
  /\ SESSION_STORE_CACHE[StorePath].age = 1

\* The store file cannot be read as a mapping: it is missing, unreadable, or its
\* text does not parse.
FileUnusable ==
  \/ ~disk.file.exists
  \/ "unreadable" \in DOMAIN disk.file.raw
  \/ ~disk.file.raw.complete

\* The text of the store file parses to a value that is not an object.
FileNotAnObject ==
  /\ disk.file.exists
  /\ disk.file.raw.complete
  /\ "scalar" \in DOMAIN disk.file.raw.value

(***************************************************************************)
(* C24: a loadSessionStore call that finds the file missing, unreadable or *)
(* with a text that does not parse returns the empty mapping at once; one  *)
(* that finds a text that parses to a value that is not an object goes on  *)
(* with the empty mapping; and every call that read the file returns the   *)
(* mapping it went on with.                                                *)
(***************************************************************************)
C24_LoadNeverFails ==
  [][ /\ (loader.pc = "read" /\ loader' # loader /\ FileUnusable)
           => /\ loader'.pc = "idle"
              /\ lastLoad' = Loaded(<<>>, lastLoad'.read)
      /\ (loader.pc = "read" /\ loader' # loader /\ FileNotAnObject)
           => /\ loader'.pc = "restat"
              /\ loader'.store = <<>>
      /\ (loader.pc = "restat" /\ loader' # loader)
           => /\ loader'.pc = "idle"
              /\ lastLoad' = Loaded(loader.store, "complete") ]_vars

\* A load returned the empty mapping from a file whose text parses to a value
\* that is not an object.
C24_Witness ==
  /\ lastLoad.valid
  /\ lastLoad.read = "complete"
  /\ lastLoad.store = <<>>
  /\ FileNotAnObject

\* A load returned the empty mapping from a file it could not read.
C24_WitnessUnreadable ==
  /\ lastLoad.valid
  /\ lastLoad.read = "unreadable"
  /\ lastLoad.store = <<>>

\* entry[f], which is undefined for a property the entry does not have.
FieldOf(entry, f) == IF f \in DOMAIN entry THEN entry[f] ELSE Undefined

\* Two mappings are equal: the same session keys, and under each key entries
\* whose properties have the same values.
EqualMappings(a, b) ==
  /\ DOMAIN a = DOMAIN b
  /\ \A k \in DOMAIN a :
       \A f \in DOMAIN a[k] \cup DOMAIN b[k] : FieldOf(a[k], f) = FieldOf(b[k], f)

MovesOn(id) ==
  /\ id \in DOMAIN savers
  /\ id \in DOMAIN savers'
  /\ savers'[id].pc # savers[id].pc

\* Save id ends in this step.
SaveEnds(id) == id \in DOMAIN savers /\ id \notin DOMAIN savers'

C26_WitnessDropped ==
  /\ ~settled.threw
  /\ settled.id \in EnvSavers
  /\ ~disk.dir
  /\ ~disk.file.exists
  /\ nSaves = 1
  /\ savers = <<>>

(***************************************************************************)
(* C27: initSessionState issues a fresh session id, with isNewSession      *)
(* true, whenever the store it loaded has no entry for the session key or  *)
(* an entry whose updatedAt is more than idleMinutes * 60000 ms in the     *)
(* past, and it reuses the session id of the entry whenever the entry is   *)
(* within that window and no authorized reset trigger was sent.  As        *)
(* stated, of the entry under the session key itself, this fails: an       *)
(* entry under the legacy key of a group is moved to the session key and   *)
(* its id is reused (C27_StoredEntryDecides).  It holds of the entry       *)
(* initSessionState has for the key after that move                        *)
(* (C27_FreshOrReused).                                                    *)
(***************************************************************************)
\* The initSessionState calls that have got past loadSessionStore.
InitOps ==
  {o \in DOMAIN sessionOps : sessionOps[o].kind = "init" /\ Has(sessionOps[o], "result")}

\* The message of the call is an authorized reset trigger.
ResetSent(op) ==
  ResetRequested(op.ctx.Body, CfgOr(op.cfg, "resetTriggers", DEFAULT_RESET_TRIGGERS),
                 op.commandAuthorized)

IssuedFresh(o) ==
  sessionOps[o].result.isNewSession /\ sessionOps[o].result.sessionId = o

Reused(o, entry) ==
  ~sessionOps[o].result.isNewSession /\ sessionOps[o].result.sessionId = entry.sessionId

\* The decision of call o follows from entries, the entries the call has for
\* its key (none or one).
DecidedBy(o, entries) ==
  LET op == sessionOps[o]
      Within(e) == op.result.now - e.updatedAt <= op.result.idleMs
  IN  /\ (entries = {} \/ \E e \in entries : ~Within(e)) => IssuedFresh(o)
      /\ \A e \in entries : (Within(e) /\ ~ResetSent(op)) => Reused(o, e)

\* The entries of a store under key.
EntriesUnder(store, key) == IF key \in DOMAIN store THEN {store[key]} ELSE {}

\* The legacy key of the group of ctx, when it has one.
LegacyKeys(ctx) ==
  IF Has(resolveGroupSessionKey(ctx), "legacyKey")
    THEN {Join(resolveGroupSessionKey(ctx).legacyKey)}
    ELSE {}

\* The entry initSessionState has for the key: the one stored under the key,
\* or else the one stored under the legacy key of the group.
EntriesFor(op) ==
  IF op.result.sessionKey \in DOMAIN op.loaded
    THEN {op.loaded[op.result.sessionKey]}
    ELSE {op.loaded[k] : k \in LegacyKeys(op.ctx) \cap DOMAIN op.loaded}

C27_StoredEntryDecides ==
  \A o \in InitOps :
    DecidedBy(o, EntriesUnder(sessionOps[o].loaded, sessionOps[o].result.sessionKey))

C27_FreshOrReused == \A o \in InitOps : DecidedBy(o, EntriesFor(sessionOps[o]))

\* A call reused the id of an entry exactly idleMs old, and another call issued
\* a fresh id because the entry was older.
C27_Witness ==
  /\ \E o \in InitOps :
       /\ \E e \in EntriesFor(sessionOps[o]) :
            /\ sessionOps[o].result.now - e.updatedAt = sessionOps[o].result.idleMs
            /\ Reused(o, e)
       /\ sessionOps[o].pc = "done"
  /\ \E o \in InitOps :
       /\ \E e \in EntriesFor(sessionOps[o]) :
            sessionOps[o].result.now - e.updatedAt > sessionOps[o].result.idleMs
       /\ IssuedFresh(o)

\* A call found no entry under the key of a group and reused the id of the
\* entry under the legacy key.
C27_WitnessLegacy ==
  \E o \in InitOps :
    /\ sessionOps[o].result.sessionKey \notin DOMAIN sessionOps[o].loaded
    /\ \E e \in EntriesFor(sessionOps[o]) : Reused(o, e)

(***************************************************************************)
(* C28: when a heartbeat whose reply carries nothing to deliver (the bare  *)
(* acknowledgement or an empty reply, no media) has finished, the entry of *)
(* its session in the store file has the updatedAt it had before the       *)
(* heartbeat started, whatever the options of the call.                    *)
(***************************************************************************)
\* The heartbeats that finished with nothing to deliver.
QuietHeartbeats ==
  {o \in DOMAIN sessionOps :
     /\ sessionOps[o].kind = "heartbeat"
     /\ sessionOps[o].pc = "done"
     /\ sessionOps[o].opts.reply \in {"empty", "ack"}}

UpdatedAtAsBefore(op) ==
  \A b \in op.before : \E a \in op.after : a.updatedAt = b.updatedAt

C28_HeartbeatKeepsUpdatedAt == \A o \in QuietHeartbeats : UpdatedAtAsBefore(sessionOps[o])

(***************************************************************************)
(* C29: an `agent` request that fails parameter validation, or whose       *)
(* session's send policy resolves to deny, is answered with an error in    *)
(* the same call and changes no state: no dedupe entry is written, the     *)
(* store is not saved, no run is registered and agentCommand is not        *)
(* invoked.  As stated this fails (C29_RejectedWithoutEffect): the dedupe  *)
(* map is looked up before the policy is resolved, so a request of a       *)
(* session with policy deny whose idempotency key has an entry is answered *)
(* with the cached outcome.  It holds of the requests that fail validation *)
(* and of those that have no dedupe entry and whose policy is deny         *)
(* (C29_RejectedUnlessCached).                                             *)
(***************************************************************************)
\* The request's session has the send policy deny.
PolicyDenies(p) == p.valid /\ Has(p, "sessionKey") /\ p.sendPolicy = "deny"

\* Request r arrives in this step.
AgentArrives(r) == r \notin DOMAIN requests /\ r \in DOMAIN requests'

\* The loadSessionEntry call of request r returns in this step.
AgentLoadEnds(r) ==
  /\ r \in DOMAIN requests
  /\ requests[r].pc = "loading"
  /\ requests'[r].pc # "loading"

\* The step writes no dedupe entry, starts no save, registers no run and
\* invokes no agentCommand.
NoAgentEffect == UNCHANGED <<dedupe, savers, disk, registered, agentCommands>>

\* The step answers request r with the error, as its only response, and ends
\* the request without effect.
RejectedNow(r) ==
  /\ requests'[r].pc = "done"
  /\ responses'[r] = <<InvalidRequest>>
  /\ NoAgentEffect

\* The step leaves request r inside loadSessionEntry, which the handler calls
\* synchronously, without effect.
StillLoading(r) ==
  /\ requests'[r].pc = "loading"
  /\ loader'.pc # "idle" /\ loader'.caller = r
  /\ r \notin DOMAIN responses'
  /\ NoAgentEffect

\* A request that has been rejected has no save and no run.
RejectedForGood ==
  \A r \in DOMAIN requests :
    (requests[r].pc = "done" /\ r \in DOMAIN responses
       /\ responses[r] = <<InvalidRequest>>)
      => /\ r \notin DOMAIN savers
         /\ \A i \in 1..Len(agentCommands) : agentCommands[i].request # r

RejectionStep(cachedExcepted) ==
  \A r \in RequestIds :
    /\ (AgentArrives(r) /\ ~requests'[r].params.valid) => RejectedNow(r)
    /\ (/\ AgentArrives(r)
        /\ PolicyDenies(requests'[r].params)
        /\ cachedExcepted =>
             DedupeKey(requests'[r].params.idempotencyKey) \notin DOMAIN dedupe)
         => (RejectedNow(r) \/ StillLoading(r))
    /\ (AgentLoadEnds(r) /\ PolicyDenies(requests[r].params)) => RejectedNow(r)

C29_RejectedWithoutEffect == []RejectedForGood /\ [][RejectionStep(FALSE)]_vars

C29_RejectedUnlessCached == []RejectedForGood /\ [][RejectionStep(TRUE)]_vars

\* A request was rejected for the send policy of its session after its
\* loadSessionEntry call, another for its parameters, and a third was accepted.
C29_Witness ==
  /\ \E r \in DOMAIN requests :
       /\ PolicyDenies(requests[r].params)
       /\ requests[r].pc = "done"
       /\ responses[r] = <<InvalidRequest>>
       /\ lastLoad.valid /\ lastLoad.read = "complete"
  /\ \E r \in DOMAIN requests : requests[r].pc = "running"

\* A request was rejected for its parameters.
C29_WitnessInvalid ==
  \E r \in DOMAIN requests :
    /\ ~requests[r].params.valid
    /\ requests[r].pc = "done"
    /\ responses[r] = <<InvalidRequest>>

(***************************************************************************)
(* C30: only sessions.delete removes a key from the persisted store: once  *)
(* a save whose mapping contains key K has completed, the store file holds *)
(* K after any interleaving of `agent` and chat.send submits,              *)
(* updateLastRoute calls, sessions.reset calls and heartbeats.  Checked    *)
(* of the save that completed last: the store file holds every key of its  *)
(* mapping.                                                                *)
(***************************************************************************)
\* A save has completed; settled.saved is the mapping of the last one.
SaveCompleted == settled.id # "" /\ ~settled.threw

C30_SavedKeysStay ==
  SaveCompleted => DOMAIN settled.saved \subseteq DOMAIN DiskStore(disk)

(***************************************************************************)
(* C31: resolveSessionKey is a function of its arguments; under per-sender *)
(* scope and with no explicit ctx.SessionKey every non-group sender gets   *)
(* the key agent:main:<mainKey>, two group contexts that differ in         *)
(* provider, kind or id get different keys, and no group's key is that     *)
(* main key.  The last part fails for a main key of the form of a group's  *)
(* key, so it is stated for the main keys that are not the group's own     *)
(* key.                                                                    *)
(***************************************************************************)
ResolveOps == { o \in DOMAIN sessionOps : sessionOps[o].kind = "resolve" }

PerSenderOps ==
  { o \in ResolveOps : /\ sessionOps[o].scope = "per-sender"
                       /\ ~Has(sessionOps[o].ctx, "SessionKey") }

IsGroupCtx(ctx) == ctx.From # <<>> /\ IsGroupAddress(ctx)

DirectOps == { o \in PerSenderOps : ~IsGroupCtx(sessionOps[o].ctx) }
GroupOps == { o \in PerSenderOps : IsGroupCtx(sessionOps[o].ctx) }

MainKeyOf(mainKey) == "agent:main:" \o (IF mainKey = "" THEN "main" ELSE mainKey)

SameArguments(a, b) ==
  /\ a.scope = b.scope
  /\ a.ctx = b.ctx
  /\ a.mainKey = b.mainKey

Deterministic ==
  \A o \in ResolveOps, p \in ResolveOps :
    SameArguments(sessionOps[o], sessionOps[p])
      => sessionOps[o].result = sessionOps[p].result

DirectOnMainKey ==
  \A o \in DirectOps : sessionOps[o].result = MainKeyOf(sessionOps[o].mainKey)

GroupsApart ==
  \A o \in GroupOps, p \in GroupOps :
    GroupIdentityOf(sessionOps[o].ctx) # GroupIdentityOf(sessionOps[p].ctx)
      => sessionOps[o].result # sessionOps[p].result

OnMainKey(o) == sessionOps[o].result = MainKeyOf(sessionOps[o].mainKey)

MainKeyIsGroupKey(o) ==
  sessionOps[o].mainKey = Join(resolveGroupSessionKey(sessionOps[o].ctx).key)

C31_WitnessDirect ==
  /\ {"o1", "o2"} \subseteq DirectOps
  /\ sessionOps["o1"].ctx.From # sessionOps["o2"].ctx.From
  /\ sessionOps["o1"].result = "agent:main:work"
  /\ sessionOps["o2"].result = "agent:main:work"

(***************************************************************************)
(* C33: after every enqueueFollowupRun call the key's queue holds at most  *)
(* cap items, whatever the settings of the calls, settings that lower the  *)
(* cap included.                                                           *)
(***************************************************************************)
WithinCap(queue) == Len(queue.items) <= queue.cap

C33_WithinCapAfterEnqueue ==
  [][\A k \in Keys : EnqueueCalled(k) => WithinCap(FOLLOWUP_QUEUES'[k])]_vars

\* What holds: a call that returns true leaves the queue within its cap, and
\* a call that leaves it above its cap has returned false and removed nothing.
AcceptedWithinCap ==
  [][\A k \in Keys :
       EnqueueCalled(k) =>
         \/ WithinCap(FOLLOWUP_QUEUES'[k])
         \/ /\ Refused(k)
            /\ k \in DOMAIN FOLLOWUP_QUEUES
            /\ FOLLOWUP_QUEUES'[k].cap < FOLLOWUP_QUEUES[k].cap]_vars

(***************************************************************************)
(* C34: an enqueueFollowupRun call that returns false leaves the existing  *)
(* queue state of its key as it was: items, lastEnqueuedAt, lastRun, mode, *)
(* debounce, cap and drop settings, dropped count and summary lines.       *)
(***************************************************************************)
ReturnedFalse(k) ==
  /\ EnqueueCalled(k)
  /\ ~lastOp'.result
  /\ k \in DOMAIN FOLLOWUP_QUEUES

C34_RefusalChangesNothing ==
  [][\A k \in Keys : ReturnedFalse(k) => FOLLOWUP_QUEUES'[k] = FOLLOWUP_QUEUES[k]]_vars

SettingsFields == {"mode", "debounceMs", "cap", "dropPolicy"}
StampFields == {"since", "lastRun"}

SameFields(a, b, fields) == \A f \in fields : a[f] = b[f]

\* What holds: a call that returns false changes at most the settings and,
\* when a full queue under drop policy new refused the run, the stamps
\* lastEnqueuedAt and lastRun.
RefusalKeepsItemsAndSummary ==
  [][\A k \in Keys :
       ReturnedFalse(k) =>
         /\ SameFields(FOLLOWUP_QUEUES'[k], FOLLOWUP_QUEUES[k],
                       DOMAIN FOLLOWUP_QUEUES[k] \ (SettingsFields \cup StampFields))
         /\ \/ RefusedByCap(k)
            \/ SameFields(FOLLOWUP_QUEUES'[k], FOLLOWUP_QUEUES[k], StampFields)]_vars

(***************************************************************************)
(* C32: in a mode other than collect, the loop that resumes with a drop    *)
(* summary pending issues one runFollowup call that carries the summary    *)
(* text alone, with the run parameters of the most recent enqueue and no   *)
(* originating route, and removes no item from the queue.                  *)
(***************************************************************************)
SummaryPending(queue) == queue.mode # "collect" /\ SummaryOf(queue) # NoSummary

\* The run parameters of the item enqueued last.
LastEnqueuedRun == enqueued[accepted[Len(accepted)]].run

SummaryAlone(call, queue) ==
  /\ call.items = <<>>
  /\ call.route = <<>>
  /\ call.summary = [count |-> queue.droppedCount, lines |-> queue.summaryLines]

ResumesWithSummary(k) ==
  /\ BodyRan(k)
  /\ k \in DOMAIN FOLLOWUP_QUEUES
  /\ SummaryPending(FOLLOWUP_QUEUES[k])
  /\ Len(calls) < MaxCalls

KeepsItems(k) ==
  /\ k \in DOMAIN FOLLOWUP_QUEUES'
  /\ FOLLOWUP_QUEUES'[k].items = FOLLOWUP_QUEUES[k].items

C32_SummaryCallFirst ==
  [][\A k \in Keys :
       ResumesWithSummary(k) =>
         /\ CallIssued
         /\ SummaryAlone(NewCall, FOLLOWUP_QUEUES[k])
         /\ NewCall.run = LastEnqueuedRun
         /\ KeepsItems(k)]_vars

\* What holds: the call carries queue.lastRun, the run parameters of the most
\* recent enqueueFollowupRun call that was not a duplicate.
SummaryCallWithLastRun ==
  [][\A k \in Keys :
       ResumesWithSummary(k) =>
         /\ CallIssued
         /\ SummaryAlone(NewCall, FOLLOWUP_QUEUES[k])
         /\ NewCall.run = FOLLOWUP_QUEUES[k].lastRun
         /\ KeepsItems(k)]_vars

(***************************************************************************)
(* C35: when an updateLastRoute call and an `agent` submit for different   *)
(* session keys of the one store overlap, the store file holds both        *)
(* updates once both have completed.  Checked of the behaviours in which   *)
(* nothing but updateLastRoute calls for one key and one `agent` submit    *)
(* for another has been made.                                              *)
(***************************************************************************)
RoutesDone == { o \in DOMAIN sessionOps :
                  sessionOps[o].kind = "route" /\ sessionOps[o].pc = "done" }

\* The `agent` request r has saved its entry and started its run.
AgentSaved(r) ==
  /\ r \in DOMAIN requests
  /\ requests[r].pc = "running"
  /\ Has(requests[r].params, "sessionKey")

RouteAndAgentDone ==
  /\ RoutesDone # {}
  /\ DOMAIN sessionOps = RoutesDone
  /\ DOMAIN requests = {"r1"}
  /\ AgentSaved("r1")
  /\ \A o \in RoutesDone : sessionOps[o].params.sessionKey # requests["r1"].params.sessionKey
  /\ chatSends = <<>>
  /\ savers = <<>>

RouteInFile(store, params) ==
  /\ params.sessionKey \in DOMAIN store
  /\ Has(store[params.sessionKey], "lastProvider")
  /\ store[params.sessionKey].lastProvider = params.provider
  /\ Has(store[params.sessionKey], "lastTo")
  /\ store[params.sessionKey].lastTo = params.to

AgentInFile(store, r) ==
  /\ requests[r].params.sessionKey \in DOMAIN store
  /\ store[requests[r].params.sessionKey].sessionId = r

C35_BothUpdatesInFile ==
  RouteAndAgentDone =>
    /\ \A o \in RoutesDone : RouteInFile(DiskStore(disk), sessionOps[o].params)
    /\ AgentInFile(DiskStore(disk), "r1")

(***************************************************************************)
(* C36: the restore of updatedAt at the end of an acknowledgement-only     *)
(* heartbeat never replaces a newer updatedAt that a user-triggered update *)
(* wrote to the entry while the heartbeat's agent run was in progress.     *)
(* Checked of the heartbeats whose resolver leaves the store alone, where  *)
(* an updatedAt newer than the snapshot's is the work of another update:   *)
(* the mapping the restore saves holds for the key an updatedAt no older   *)
(* than the one it loaded.                                                 *)
(***************************************************************************)
\* Heartbeat o returns from the loadSessionStore of its restore and saves.
RestoreStarts(o) ==
  /\ o \in DOMAIN sessionOps
  /\ sessionOps[o].kind = "heartbeat"
  /\ sessionOps[o].pc = "restore"
  /\ sessionOps'[o].pc = "restoreSaving"

UpdatedAtIn(store, key) == store[key].updatedAt

C36_RestoreKeepsNewer ==
  [][\A o \in OpIds :
       (RestoreStarts(o) /\ ~sessionOps[o].opts.replyFlow)
         => UpdatedAtIn(savers'[o].store, sessionOps[o].sessionSnapshot.key)
              >= UpdatedAtIn(lastLoad'.store, sessionOps[o].sessionSnapshot.key)]_vars

\* What holds: the restore saves the mapping it loaded with the updatedAt of
\* the snapshot under the snapshot's key.
RestoreWritesSnapshot ==
  [][\A o \in OpIds :
       RestoreStarts(o)
         => savers'[o].store
              = UpdatedAtRestored(lastLoad'.store, sessionOps[o].sessionSnapshot)]_vars

(***************************************************************************)
(* C37: updateLastRoute changes only lastProvider, lastTo, lastAccountId   *)
(* and updatedAt of the target session entry (creating the entry with a    *)
(* new session id when it is absent): in the mapping it saves, the session *)
(* id and every other stored field of that entry, and every other entry,   *)
(* are what they were in the mapping it loaded, and updatedAt is no        *)
(* smaller.                                                                *)
(***************************************************************************)
\* updateLastRoute o returns from loadSessionStore and starts its save.
RouteSaves(o) ==
  /\ o \in DOMAIN sessionOps
  /\ sessionOps[o].kind = "route"
  /\ sessionOps[o].pc = "loading"
  /\ sessionOps'[o].pc = "saving"

\* The fields updateLastRoute is there to write.
RouteWrites == {"lastProvider", "lastTo", "lastAccountId", "updatedAt"}

\* The stored fields of an entry, apart from those: the ones JSON.stringify
\* writes.
KeptFields(entry) == DOMAIN Defined(entry) \ RouteWrites

SameKeptFields(before, after) ==
  /\ KeptFields(before) = KeptFields(after)
  /\ \A f \in KeptFields(before) : before[f] = after[f]

OtherEntriesKept(before, after, key) ==
  /\ DOMAIN after = DOMAIN before \cup {key}
  /\ \A k \in DOMAIN before \ {key} : after[k] = before[k]

SessionIdAndStampKept(before, after, key) ==
  key \in DOMAIN before =>
    /\ after[key].sessionId = before[key].sessionId
    /\ after[key].updatedAt >= before[key].updatedAt

RouteFrame(before, after, key) ==
  /\ OtherEntriesKept(before, after, key)
  /\ SessionIdAndStampKept(before, after, key)
  /\ key \in DOMAIN before => SameKeptFields(before[key], after[key])

C37_RouteChangesOnlyRoute ==
  [][\A o \in OpIds :
       RouteSaves(o) =>
         RouteFrame(lastLoad'.store, savers'[o].store, sessionOps[o].params.sessionKey)]_vars

\* What does hold: the other entries, the session id, the model and the order
\* of updatedAt.
RouteKeepsIdAndOthers ==
  [][\A o \in OpIds :
       RouteSaves(o) =>
         LET before == lastLoad'.store
             after == savers'[o].store
             key == sessionOps[o].params.sessionKey
         IN  /\ OtherEntriesKept(before, after, key)
             /\ SessionIdAndStampKept(before, after, key)
             /\ key \in DOMAIN before =>
                  Inherit(after, key, "model") = Inherit(before, key, "model")]_vars

(***************************************************************************)
(* C38: changes a caller makes to the mapping loadSessionStore returned    *)
(* (adding, replacing or deleting keys, assigning to a field of an entry)  *)
(* never change what a later loadSessionStore served from the cache        *)
(* returns: a call served from the cache returns the mapping that the load *)
(* which set the cache entry returned.                                     *)
(***************************************************************************)
\* The mapping returned by the load that set the cache entry caller o was
\* served from.
ReturnedAtParse(ops, o) ==
  ops[CHOOSE p \in Holders(ops) : ops[p].nth = ParsedAt(ops, o)].returned

ServedFromCache == {o \in Holders(sessionOps) : sessionOps[o].served}

C38_CallerChangesStayOut ==
  \A o \in ServedFromCache : sessionOps[o].returned = ReturnedAtParse(sessionOps, o)

\* What does hold: setting and deleting keys leaves the cached mapping as it
\* is, and so does an assignment to an entry the caller has set itself.
AssignsToShared ==
  \E o \in Holders(sessionOps) :
    /\ sessionOps'[o].changes = sessionOps[o].changes + 1
    /\ \E k \in DOMAIN sessionOps[o].store \ sessionOps[o].own :
         /\ k \in DOMAIN sessionOps'[o].store
         /\ sessionOps'[o].store[k] # sessionOps[o].store[k]

KeyChangesStayOut ==
  [][(sessionOps' # sessionOps /\ loader.pc = "idle" /\ loader'.pc = "idle"
        /\ wallClock' = wallClock /\ ~AssignsToShared)
       => SESSION_STORE_CACHE' = SESSION_STORE_CACHE]_vars

(***************************************************************************)
(* C4: with every runFollowup call returning, a drain that is running ends *)
(* with the key's QueueState removed from the registry (depth 0): enqueues *)
(* are finitely many, so they stop.                                        *)
(***************************************************************************)
C4_DrainTerminates ==
  \A k \in Keys :
    [](LoopsOf(k) # {} => <>(LoopsOf(k) = {} /\ k \notin DOMAIN FOLLOWUP_QUEUES))

SameRouteOrNone(items) ==
  \A i, j \in 1..Len(items) : hasSameRouting(items[i], items[j])

InEnqueueOrder(items) ==
  \A i, j \in 1..Len(items) : i < j => items[i].id < items[j].id

\* The step issues one call that carries every queued item of k, in order, after
\* the given summary, and leaves the queue of k empty.
OneCallWithAll(k, summary) ==
  /\ CallIssued
  /\ NewCall.items = FOLLOWUP_QUEUES[k].items
  /\ InEnqueueOrder(NewCall.items)
  /\ NewCall.summary = summary
  /\ FOLLOWUP_QUEUES'[k].items = <<>>
  /\ FOLLOWUP_QUEUES'[k].droppedCount = 0 \/ summary = NoSummary

\* The same, the call being built by the collect branch (buildCollectPrompt).
OneMergedCall(k, summary) == OneCallWithAll(k, summary) /\ NewCall.kind = "collect"

\* The drop summary a queue has pending, whatever its drop policy is now.
PendingCount(queue) ==
  IF queue.droppedCount > 0
    THEN [count |-> queue.droppedCount, lines |-> queue.summaryLines]
    ELSE NoSummary

RoutableOrNone(items) ==
  \/ \A i \in 1..Len(items) : IsUnkeyed(items[i])
  \/ \A i \in 1..Len(items) :
       /\ Has(items[i], "originatingChannel")
       /\ isRoutableChannel(items[i].originatingChannel)
       /\ Has(items[i], "originatingTo")

PendingSummary(queue) ==
  IF queue.dropPolicy = "summarize" THEN PendingCount(queue) ELSE NoSummary

Merged(call) == call.kind = "collect" /\ Len(call.items) >= 2

(***************************************************************************)
(* C8: in collect mode, when the queued items span several routes the loop *)
(* issues a call for the first item alone; and once a drain has gone       *)
(* per-item, no call merges several items until the queue has been drained *)
(* to empty.  It is checked where isRoutableChannel accepts every channel  *)
(* in use.                                                                 *)
(***************************************************************************)
C8_PerItemUntilDrained ==
  [][\A k \in Keys :
       ( /\ BodyRan(k)
         /\ CallIssued
         /\ routable = Channels
         /\ FOLLOWUP_QUEUES[k].mode = "collect" )
       => /\ hasCrossChannelItems(FOLLOWUP_QUEUES[k].items)
               => NewCall = ItemCall(Head(FOLLOWUP_QUEUES[k].items))
          /\ k \in switched => ~Merged(NewCall)]_vars

ResponsesTo(r) == IF r \in DOMAIN responses THEN responses[r] ELSE <<>>

AcceptedBy(r) == {res \in Range(ResponsesTo(r)) : res.status = "accepted"}

(***************************************************************************)
(* C3: agentCommand is invoked at most once for an idempotencyKey, however *)
(* the requests that carry the key interleave, and every accepted response *)
(* to such a request carries the same runId.                               *)
(***************************************************************************)
C3_OneRunPerKey ==
  /\ \A i, j \in 1..Len(agentCommands) :
       agentCommands[i].runId = agentCommands[j].runId => i = j
  /\ \A r1, r2 \in DOMAIN requests :
       requests[r1].params.idempotencyKey = requests[r2].params.idempotencyKey
         => \A a \in AcceptedBy(r1), b \in AcceptedBy(r2) : a.runId = b.runId

(***************************************************************************)
(* C5: a load that returns after a save of m has completed, with no other  *)
(* save and no removal of the directory since that save began, returns m   *)
(* (as JSON serializes it).                                                *)
(***************************************************************************)
C5_ReadAfterWrite ==
  (lastLoad.valid /\ settled.known) => lastLoad.store = settled.store

(***************************************************************************)
(* C6: no loadSessionStore call reads a partially written store file.      *)
(***************************************************************************)
C6_NoPartialRead == lastLoad.read # "partial"

====
